---- MODULE Spec2Model ----
(***************************************************************************)
(* A model of the DuoMind retrieval core: the AdvancedHybridRetriever with *)
(* its BM25+/BM25L lexical index, its DPR dense index and its score        *)
(* fusion, and the VectorStore that fronts it.                             *)
(*                                                                         *)
(* Numbers.  Python floats are modelled in fixed point: a score s is the   *)
(* integer round-down of 1000*s ("milli"), a fusion weight w is 10*w       *)
(* ("tenths"), a fused score is weight*score (units of 1/10000).  math.log *)
(* is the table LnMilli.  A text is a sequence of one-character strings;   *)
(* a token is such a sequence too.                                         *)
(***************************************************************************)
EXTENDS Integers, Sequences, FiniteSets, TLC

(***************************************************************************)
(* Bounds of the model.                                                    *)
(***************************************************************************)
MaxDocs == 2
MaxBatch == 2
\* Searches explored in a row: a search leaves the retriever as it found it
MaxSearches == 1

(***************************************************************************)
(* Generic helpers over sequences.                                         *)
(***************************************************************************)
Min2(a, b) == IF a <= b THEN a ELSE b

Range(s) == {s[i] : i \in 1..Len(s)}

\* Python's s[:n] for n >= 0, and for n < 0 (drop the last -n items)
Take(s, n) ==
  IF n >= 0 THEN SubSeq(s, 1, Min2(n, Len(s)))
  ELSE SubSeq(s, 1, IF Len(s) + n > 0 THEN Len(s) + n ELSE 0)

RECURSIVE SumSeq(_)
SumSeq(s) == IF s = <<>> THEN 0 ELSE Head(s) + SumSeq(Tail(s))

RECURSIVE MinSeq(_)
MinSeq(s) == IF Len(s) = 1 THEN s[1] ELSE Min2(s[1], MinSeq(Tail(s)))

RECURSIVE MaxSeq(_)
MaxSeq(s) ==
  IF Len(s) = 1 THEN s[1]
  ELSE LET m == MaxSeq(Tail(s)) IN IF s[1] >= m THEN s[1] ELSE m

\* A list built by a comprehension, as a tuple (TLC then holds the elements,
\* where it would recompute an element of [i \in 1..n |-> e] at every use)
List(f) == f \o <<>>

\* [x] * n
Repeat(x, n) == List([i \in 1..n |-> x])

(***************************************************************************)
(* Characters and texts.                                                   *)
(***************************************************************************)
Punctuation == {"-", ".", ","}
Whitespace == {" "}

\* str.lower() on the alphabet of the model
LowerChar(c) ==
  CASE c = "A" -> "a"
    [] c = "B" -> "b"
    [] c = "C" -> "c"
    [] c = "D" -> "d"
    [] OTHER -> c

Lower(text) == List([i \in 1..Len(text) |-> LowerChar(text[i])])

\* text.translate(str.maketrans('', '', string.punctuation)): punctuation is deleted
RemovePunctuation(text) == SelectSeq(text, LAMBDA c : c \notin Punctuation)

\* str.split(): maximal runs of non-whitespace characters
RECURSIVE SplitFrom(_, _, _)
SplitFrom(text, cur, acc) ==
  IF text = <<>> THEN (IF cur = <<>> THEN acc ELSE Append(acc, cur))
  ELSE IF Head(text) \in Whitespace
       THEN SplitFrom(Tail(text), <<>>, IF cur = <<>> THEN acc ELSE Append(acc, cur))
       ELSE SplitFrom(Tail(text), Append(cur, Head(text)), acc)

Split(text) == SplitFrom(text, <<>>, <<>>)

\* A tokenizer that drops the short tokens before it deletes the punctuation
PreprocessTextFiltersFirst(text) ==
  LET tokens == SelectSeq(Split(Lower(text)), LAMBDA tok : Len(tok) > 1)
  IN List([i \in 1..Len(tokens) |-> RemovePunctuation(tokens[i])])

\* AdvancedHybridRetriever._preprocess_text
PreprocessText(text) ==
  SelectSeq(Split(RemovePunctuation(Lower(text))), LAMBDA tok : Len(tok) > 1)

\* The passages and queries of the model
TextFox == <<"A", "b", " ", "c", "d">>
TextDog == <<"a", "b">>
TextAsk == <<"a", " ", "A", "-", "b", ".">>

Texts == {TextFox, TextDog}
Queries == {TextAsk}

(***************************************************************************)
(* BM25+ and BM25L (bm25_plus.py).  A BM25 object is a record of what      *)
(* __init__ stores: the corpus, corpus_size, doc_len, idf and avgdl, the   *)
(* last as its numerator total_len (avgdl = total_len / corpus_size, and   *)
(* 0 for no corpus).  doc_freqs[i] is Counter(corpus[i]), read off the     *)
(* corpus by DocFreq.                                                      *)
(***************************************************************************)
\* 1000 * math.log(n) for the odd n that 2*(N - df) + 1 and 2*df + 1 take
LnMilli(n) ==
  CASE n = 1 -> 0
    [] n = 3 -> 1099
    [] n = 5 -> 1609
    [] n = 7 -> 1946
    [] n = 9 -> 2197
    [] n = 11 -> 2398
    [] n = 13 -> 2565
    [] OTHER -> 2708

\* The words of a tokenized corpus
Terms(corpus) == UNION {Range(corpus[i]) : i \in 1..Len(corpus)}

\* nd[word]: the number of documents holding the word
Nd(corpus, word) == Cardinality({i \in 1..Len(corpus) : word \in Range(corpus[i])})

\* idf[word] = log((N - freq + 0.5) / (freq + 0.5)) = log(2(N - freq) + 1) - log(2 freq + 1)
Idf(corpus_size, freq) == LnMilli(2 * (corpus_size - freq) + 1) - LnMilli(2 * freq + 1)

\* BM25Plus.__init__ / BM25L.__init__
BM25Build(variant, corpus) ==
  [variant |-> variant,
   corpus |-> corpus,
   corpus_size |-> Len(corpus),
   total_len |-> SumSeq(List([i \in 1..Len(corpus) |-> Len(corpus[i])])),
   doc_len |-> List([i \in 1..Len(corpus) |-> Len(corpus[i])]),
   idf |-> [word \in Terms(corpus) |-> Idf(Len(corpus), Nd(corpus, word))]]

\* self.bm25_retriever = None
NoBM25 ==
  [variant |-> "none", corpus |-> <<>>, corpus_size |-> 0, total_len |-> 0,
   doc_len |-> <<>>, idf |-> <<>>]

\* doc_freqs[i][term]: Counter(doc)[term]
DocFreq(bm, i, term) == Cardinality({j \in 1..Len(bm.corpus[i]) : bm.corpus[i][j] = term})

\* A term score for every query term, whether the passage holds it or not
InDocAlways(bm, i, term) == i \in 1..Len(bm.corpus)

\* term in doc_freqs[i]
InDoc(bm, i, term) == term \in Range(bm.corpus[i])

\* self.idf.get(term, 0)
IdfMilli(bm, term) == IF term \in DOMAIN bm.idf THEN bm.idf[term] ELSE 0

\* tf*(k1+1) / (tf + k1*(1 - b + b*doc_len/avgdl)) with k1 = 1.2, b = 0.75, in
\* milli: 22*tf*S / (10*tf*S + 3*S + 9*doc_len*N), S = total_len, N = corpus_size.
\* BM25L's (k1+1)*ctd / (k1+ctd) with ctd = tf / (1 - b + b*doc_len/avgdl) is the
\* same quotient.
SaturationMilli(bm, i, tf) ==
  (22000 * tf * bm.total_len)
    \div (10 * tf * bm.total_len + 3 * bm.total_len + 9 * bm.doc_len[i] * bm.corpus_size)

\* term_score: BM25+ idf * (num/den + delta), delta = 1.0;
\*             BM25L idf * (num/den) + delta, delta = 0.5
TermScore(bm, i, term) ==
  IF bm.variant = "bm25l"
  THEN (IdfMilli(bm, term) * SaturationMilli(bm, i, DocFreq(bm, i, term))) \div 1000 + 500
  ELSE (IdfMilli(bm, term) * (SaturationMilli(bm, i, DocFreq(bm, i, term)) + 1000)) \div 1000

\* get_scores divides doc_len by avgdl for a passage that holds a query term:
\* ZeroDivisionError when avgdl is 0
GetScoresDividesByZero(bm, query) ==
  /\ bm.total_len = 0
  /\ \E i \in 1..Len(bm.corpus) : \E j \in 1..Len(query) : InDoc(bm, i, query[j])

\* BM25Plus.get_scores / BM25L.get_scores: one score per passage
GetScores(bm, query) ==
  List([i \in 1..Len(bm.corpus) |->
          SumSeq(List([j \in 1..Len(query) |->
                         IF InDoc(bm, i, query[j]) THEN TermScore(bm, i, query[j])
                         ELSE 0]))])

(***************************************************************************)
(* ScoreFusion (advanced_hybrid_retriever.py).                             *)
(***************************************************************************)
\* min_max_normalize: passthrough for length <= 1, all 1.0 when all are equal
MinMaxNormalize(scores) ==
  IF Len(scores) <= 1 THEN scores
  ELSE LET lo == MinSeq(scores)
           hi == MaxSeq(scores)
       IN IF hi = lo THEN Repeat(1000, Len(scores))
          ELSE List([i \in 1..Len(scores) |-> ((scores[i] - lo) * 1000) \div (hi - lo)])

WeightedSumRaises(scores1, scores2) == Len(scores1) # Len(scores2)

\* weighted_sum_fusion, for lists of the same length
WeightedSumFusion(scores1, scores2, weight1, weight2, normalize) ==
  LET s1 == IF normalize THEN MinMaxNormalize(scores1) ELSE scores1
      s2 == IF normalize THEN MinMaxNormalize(scores2) ELSE scores2
  IN List([i \in 1..Len(scores1) |-> weight1 * s1[i] + weight2 * s2[i]])

\* A sort that is not stable: a result of equal score goes before the earlier one
ScoreBeforeUnstable(x, y) == x.score > y.score

\* Whether result x goes before result y in list.sort(key=score, reverse=True)
ScoreBefore(x, y) == x.score >= y.score

\* list.sort(key=lambda x: x['score'], reverse=True): stable, so results of
\* equal score keep the order they had
RECURSIVE InsertByScore(_, _)
InsertByScore(x, sorted) ==
  IF sorted = <<>> THEN <<x>>
  ELSE IF ScoreBefore(Head(sorted), x)
       THEN <<Head(sorted)>> \o InsertByScore(x, Tail(sorted))
       ELSE <<x>> \o sorted

RECURSIVE SortByScoreFrom(_, _)
SortByScoreFrom(rest, sorted) ==
  IF rest = <<>> THEN sorted
  ELSE SortByScoreFrom(Tail(rest), InsertByScore(Head(rest), sorted))

SortByScore(results) == SortByScoreFrom(results, <<>>)

\* An empty slot of a set's table
NoSlot == 0 - 1

\* The doc_index values of a result list, as a set
DocIndexes(results) == {results[i].doc_index : i \in 1..Len(results)}

\* Ranks counted from the end of the list
RankInFromEnd(results, d) ==
  IF d \in DocIndexes(results)
  THEN CHOOSE i \in 1..Len(results) : results[Len(results) + 1 - i].doc_index = d
  ELSE 0

\* doc_ranks = {result['doc_index']: i + 1 for i, result in enumerate(results)}:
\* the rank of doc_index d in the list, 0 when the list does not hold it
RankIn(results, d) ==
  IF d \in DocIndexes(results)
  THEN CHOOSE i \in 1..Len(results) :
         /\ results[i].doc_index = d
         /\ \A j \in (i + 1)..Len(results) : results[j].doc_index # d
  ELSE 0

\* The RRF parameter k, and the fixed-point unit of an RRF score
RRFK == 60
RRFUnit == 100000000

\* A score by mean rank: the smaller the sum of the two ranks, the higher
RRFScoreMeanRank(results1, results2, d) ==
  RRFUnit - (RankIn(results1, d) + RankIn(results2, d))

\* rrf_score of doc_index d: 1/(k + rank) summed over the lists that hold d
RRFScore(results1, results2, d) ==
  (IF RankIn(results1, d) > 0 THEN RRFUnit \div (RRFK + RankIn(results1, d)) ELSE 0)
  + (IF RankIn(results2, d) > 0 THEN RRFUnit \div (RRFK + RankIn(results2, d)) ELSE 0)

\* A CPython set of at most four small non-negative integers: a table of
\* eight slots, -1 for an empty one.  An integer hashes to itself; the slot
\* tried first is hash & 7 and, that one taken by another key, the next is
\* (5 * slot + 1 + perturb) & 7 with perturb shifted right by 5 each time.
\* SetSlot is the slot in which key is found or will be stored.
RECURSIVE SetSlot(_, _, _, _)
SetSlot(table, key, slot, perturb) ==
  IF table[slot] = NoSlot \/ table[slot] = key THEN slot
  ELSE SetSlot(table, key, (5 * slot + 1 + (perturb \div 32)) % 8, perturb \div 32)

\* set.add of every key of a sequence, in its order
RECURSIVE SetAddAll(_, _)
SetAddAll(table, keys) ==
  IF keys = <<>> THEN table
  ELSE SetAddAll([table EXCEPT ![SetSlot(table, Head(keys), Head(keys) % 8, Head(keys))]
                                 = Head(keys)],
                 Tail(keys))

\* Iterating a set: its keys in the order of their slots
TableOrder(table) ==
  LET slots == SelectSeq(<<0, 1, 2, 3, 4, 5, 6, 7>>, LAMBDA i : table[i] # NoSlot)
  IN List([i \in 1..Len(slots) |-> table[slots[i]]])

\* Line 120: set(doc_ranks1.keys()) | set(doc_ranks2.keys()), iterated.  The
\* keys of a dict come in insertion order; the union copies the left table and
\* adds the keys of the right set as that set iterates them.
AllDocIds(results1, results2) ==
  LET empty == [i \in 0..7 |-> NoSlot]
      keys1 == List([i \in 1..Len(results1) |-> results1[i].doc_index])
      keys2 == List([i \in 1..Len(results2) |-> results2[i].doc_index])
  IN TableOrder(SetAddAll(SetAddAll(empty, keys1),
                          TableOrder(SetAddAll(empty, keys2))))

\* doc_id_to_result[d]: the first result of results1 + results2 with that doc_index
FirstResultOf(results, d) ==
  results[CHOOSE i \in 1..Len(results) :
            /\ results[i].doc_index = d
            /\ \A j \in 1..(i - 1) : results[j].doc_index # d]

\* ScoreFusion.rank_fusion
RankFusion(results1, results2) ==
  LET ids == AllDocIds(results1, results2)
      rrf == List([i \in 1..Len(ids) |->
                     [doc_index |-> ids[i],
                      score |-> RRFScore(results1, results2, ids[i])]])
      sorted_docs == SortByScore(rrf)
  IN List([i \in 1..Len(sorted_docs) |->
             [FirstResultOf(results1 \o results2, sorted_docs[i].doc_index)
                EXCEPT !.rrf_score = sorted_docs[i].score]])

(***************************************************************************)
(* The state: one AdvancedHybridRetriever with its DPRRetriever, and the   *)
(* record of the call that returned last.                                  *)
(***************************************************************************)
VARIABLES
  use_bm25_variant,   \* AdvancedHybridRetriever.use_bm25_variant
  fusion_method,      \* AdvancedHybridRetriever.fusion_method
  normalize_scores,   \* AdvancedHybridRetriever.normalize_scores
  bm25_weight,        \* instance default weights, in tenths
  dpr_weight,
  documents,          \* AdvancedHybridRetriever.documents
  document_metadata,  \* AdvancedHybridRetriever.document_metadata
  bm25_retriever,     \* NoBM25 or a BM25 object
  passage_embeddings, \* DPRRetriever.passage_embeddings: None or a matrix of rows
  passages,           \* DPRRetriever.passages
  passage_metadata,   \* DPRRetriever.passage_metadata
  call,               \* the last call: its operation, arguments and outcome
  results,            \* the list the last search returned
  last_batch,         \* doc_index range of the last add_documents that returned
  use_advanced_retriever, \* VectorStore.use_advanced_retriever
  collection,         \* VectorStore.collection: the chunks held by Chroma
  hybrid_documents,   \* HybridRetriever.documents
  hybrid_metadata,    \* HybridRetriever.document_metadata
  store_results,      \* the list the last VectorStore.similarity_search returned
  in_flight,          \* the add_documents / clear_documents call another thread is in
  args,               \* the arguments a pure function is called with
  value               \* what that call returned, once it has

retriever == <<use_bm25_variant, fusion_method, normalize_scores, bm25_weight,
               dpr_weight, documents, document_metadata, bm25_retriever,
               passage_embeddings, passages, passage_metadata>>

store == <<use_advanced_retriever, collection, hybrid_documents, hybrid_metadata,
           store_results>>

\* What the sequential operations of the retriever and the store never touch
aux == <<in_flight, args, value>>

vars == <<retriever, call, results, last_batch, store, aux>>

\* Metadata records: the keys the code reads, "none" / -1 for an absent key
NoId == "none"
NoDocId == 0 - 1
DocIds == {"d1"}
GivenMetadata(id) == [document_id |-> id, doc_id |-> NoDocId]

\* {"doc_id": len(self.document_metadata) + i}
SynthMetadata(n) == [document_id |-> NoId, doc_id |-> n]

\* numpy's None / an array with that many rows
NoEmbeddings == [is_none |-> TRUE, rows |-> 0]
Rows(emb) == emb.rows

VStack(emb, n) == [is_none |-> FALSE, rows |-> emb.rows + n]

\* Retrieval modes a caller may pass: mode.lower() is compared
Modes == {"normal", "PRO", "fast"}

LowerMode(mode) ==
  CASE mode = "Normal" -> "normal"
    [] mode = "PRO" -> "pro"
    [] OTHER -> mode

\* Cosine similarities the encoders may produce, in milli
SimVals == {200, 900}

\* Weights update_weights is called with, in tenths
WeightVals == {2}

\* The record of a call: n_texts and n_metadata are the lengths of the lists
\* add_documents was given (n_metadata = -1 for metadata=None), searches the
\* number of searches in a row that this call ends, sims and order what the
\* encoders and argsort gave a search
NoCall ==
  [op |-> "init", outcome |-> "ok", n_texts |-> 0, n_metadata |-> 0,
   top_k |-> 0, mode |-> "", filtered |-> FALSE, document_ids |-> {},
   returned |-> 0, searches |-> 0, sims |-> <<>>, order |-> <<>>]

(***************************************************************************)
(* DPRRetriever (dpr_retriever.py).  The encoders are external models:     *)
(* a search draws the cosine similarity of the query to each stored row,   *)
(* and the order argsort gives rows of equal similarity, from outside.     *)
(***************************************************************************)
RowOrders(n) ==
  {p \in [1..n -> 1..n] : \A i, j \in 1..n : i # j => p[i] # p[j]}

\* np.argsort(similarities)[::-1]: rows by similarity descending (1-based rows)
ArgsortDescending(sims) ==
  {p \in RowOrders(Len(sims)) :
     \A i, j \in 1..Len(sims) : i < j => sims[p[i]] >= sims[p[j]]}

NoResult ==
  [passage |-> <<>>, score |-> 0, bm25_score |-> 0, dpr_score |-> 0,
   metadata |-> GivenMetadata(NoId), doc_index |-> 0,
   fusion_weights |-> [bm25 |-> 0, dpr |-> 0], rrf_score |-> 0, kind |-> "none"]

\* DPRRetriever.search raises IndexError at self.passages[idx] or at
\* self.passage_metadata[idx]
DprSearchRaises(order, top_k) ==
  /\ ~passage_embeddings.is_none
  /\ Len(passages) # 0
  /\ \E i \in 1..Len(Take(order, top_k)) :
       order[i] > Len(passages) \/ order[i] > Len(passage_metadata)

\* DPRRetriever.search(question, top_k), when it does not raise
DprSearch(sims, order, top_k) ==
  IF passage_embeddings.is_none \/ Len(passages) = 0 THEN <<>>
  ELSE LET top_indices == Take(order, top_k)
       IN List([i \in 1..Len(top_indices) |->
                  [NoResult EXCEPT !.passage = passages[top_indices[i]],
                                   !.score = sims[top_indices[i]],
                                   !.metadata = passage_metadata[top_indices[i]],
                                   !.doc_index = top_indices[i] - 1,
                                   !.kind = "dpr"]])

(***************************************************************************)
(* AdvancedHybridRetriever.search                                          *)
(***************************************************************************)
\* The weights with the mode compared as given, without mode.lower()
ModeWeightsCaseSensitive(mode) ==
  IF mode = "normal" THEN [bm25 |-> 7, dpr |-> 3]
  ELSE IF mode = "pro" THEN [bm25 |-> 3, dpr |-> 7]
  ELSE [bm25 |-> bm25_weight, dpr |-> dpr_weight]

\* The mode-specific weights (lines 289-301), in tenths
ModeWeights(mode) ==
  IF LowerMode(mode) = "normal" THEN [bm25 |-> 7, dpr |-> 3]
  ELSE IF LowerMode(mode) = "pro" THEN [bm25 |-> 3, dpr |-> 7]
  ELSE [bm25 |-> bm25_weight, dpr |-> dpr_weight]

\* dpr_scores: [0.0] * len(documents), then the scores of dpr_results scattered
\* by doc_index
ScatterDprScores(dpr_results) ==
  List([i \in 1..Len(documents) |->
          IF (i - 1) \in DocIndexes(dpr_results)
          THEN dpr_results[RankIn(dpr_results, i - 1)].score
          ELSE 0])

\* zip(self.documents, self.document_metadata, scores) stops at the shortest
ZipLen(scores) == Min2(Len(documents), Min2(Len(document_metadata), Len(scores)))

\* The weighted_sum branch: one result per zipped passage, sorted by fused score
WeightedSumResults(bm25_scores, dpr_scores, weights) ==
  LET fused == WeightedSumFusion(bm25_scores, dpr_scores, weights.bm25, weights.dpr,
                                 normalize_scores)
  IN SortByScore(List([i \in 1..ZipLen(fused) |->
                            [NoResult EXCEPT !.passage = documents[i],
                                             !.score = fused[i],
                                             !.bm25_score = bm25_scores[i],
                                             !.dpr_score = dpr_scores[i],
                                             !.metadata = document_metadata[i],
                                             !.doc_index = i - 1,
                                             !.fusion_weights = weights,
                                             !.kind = "fused"]]))

\* bm25_results: one result per zipped passage, sorted by BM25 score
Bm25Results(bm25_scores) ==
  SortByScore(List([i \in 1..ZipLen(bm25_scores) |->
                      [NoResult EXCEPT !.passage = documents[i],
                                       !.score = bm25_scores[i],
                                       !.metadata = document_metadata[i],
                                       !.doc_index = i - 1,
                                       !.kind = "bm25"]]))

\* The rank_fusion branch: the BM25 ranking fused with the DPR ranking
RankFusionResults(bm25_scores, dpr_results, weights) ==
  LET fused == RankFusion(Bm25Results(bm25_scores), dpr_results)
  IN List([i \in 1..Len(fused) |-> [fused[i] EXCEPT !.fusion_weights = weights]])

\* Lines 317-365: the fusion of the two score lists and the cut to top_k
FuseResults(bm25_scores, dpr_results, dpr_scores, weights, top_k) ==
  IF fusion_method = "weighted_sum"
  THEN IF WeightedSumRaises(bm25_scores, dpr_scores)
       THEN [outcome |-> "ValueError", results |-> <<>>]
       ELSE [outcome |-> "ok",
             results |-> Take(WeightedSumResults(bm25_scores, dpr_scores, weights), top_k)]
  ELSE IF fusion_method = "rank_fusion"
  THEN [outcome |-> "ok",
        results |-> Take(RankFusionResults(bm25_scores, dpr_results, weights), top_k)]
  ELSE [outcome |-> "ValueError", results |-> <<>>]

\* search without the early return for an empty corpus
SearchOutcomeUnguarded(query, top_k, mode, sims, order) ==
  IF bm25_retriever = NoBM25
  THEN [outcome |-> "AttributeError", results |-> <<>>]
  ELSE IF DprSearchRaises(order, Len(documents))
  THEN [outcome |-> "IndexError", results |-> <<>>]
  ELSE LET bm25_scores == GetScores(bm25_retriever, PreprocessText(query))
           dpr_results == DprSearch(sims, order, Len(documents))
       IN FuseResults(bm25_scores, dpr_results, ScatterDprScores(dpr_results),
                      ModeWeights(mode), top_k)

\* What search(query, top_k, mode) does: [outcome, results]
SearchOutcome(query, top_k, mode, sims, order) ==
  IF documents = <<>> THEN [outcome |-> "ok", results |-> <<>>]
  ELSE IF bm25_retriever = NoBM25
  THEN [outcome |-> "AttributeError", results |-> <<>>]
  ELSE IF GetScoresDividesByZero(bm25_retriever, PreprocessText(query))
  THEN [outcome |-> "ZeroDivisionError", results |-> <<>>]
  ELSE IF DprSearchRaises(order, Len(documents))
  THEN [outcome |-> "IndexError", results |-> <<>>]
  ELSE LET bm25_scores == GetScores(bm25_retriever, PreprocessText(query))
           dpr_results == DprSearch(sims, order, Len(documents))
       IN FuseResults(bm25_scores, dpr_results, ScatterDprScores(dpr_results),
                      ModeWeights(mode), top_k)

(***************************************************************************)
(* The operations of AdvancedHybridRetriever.                              *)
(***************************************************************************)
Batches == UNION {[1..n -> Texts] : n \in 0..MaxBatch}

\* The metadata lists a caller passes: one record per entry, of one document
MetadataLists == {Repeat(GivenMetadata(id), m) : id \in DocIds, m \in 0..MaxBatch}

TokenizeAll(docs) == List([i \in 1..Len(docs) |-> PreprocessText(docs[i])])

KnownVariant(variant) == variant \in {"bm25_plus", "bm25l"}

\* DPRRetriever.add_passages(passages, metadata) after encode_passages returned;
\* AdvancedHybridRetriever always passes a metadata list
AddPassages(texts, metadata) ==
  /\ passage_embeddings' = VStack(passage_embeddings, Len(texts))
  /\ passages' = passages \o texts
  /\ passage_metadata' = passage_metadata \o metadata

\* The metadata list add_documents stores: the caller's, or synthesized doc_ids
StoredMetadata(texts, has_metadata, given) ==
  IF has_metadata THEN given
  ELSE List([i \in 1..Len(texts) |-> SynthMetadata(Len(document_metadata) + i - 1)])

\* How add_documents(documents, metadata) ends; encoder_ok: whether
\* encode_passages returns
AddOutcome(texts, encoder_ok) ==
  IF texts = <<>> THEN "ok"
  ELSE IF ~KnownVariant(use_bm25_variant) THEN "ValueError"
  ELSE IF ~encoder_ok THEN "EncoderError"
  ELSE "ok"

\* What add_documents(documents, metadata) does to the retriever
AddDocumentsEffect(texts, has_metadata, given, encoder_ok) ==
  LET metadata == StoredMetadata(texts, has_metadata, given)
  IN /\ UNCHANGED <<use_bm25_variant, fusion_method, normalize_scores, bm25_weight,
                    dpr_weight>>
     /\ IF texts = <<>>
        THEN UNCHANGED <<documents, document_metadata, bm25_retriever,
                         passage_embeddings, passages, passage_metadata, last_batch>>
        ELSE /\ documents' = documents \o texts
             /\ document_metadata' = document_metadata \o metadata
             /\ bm25_retriever' =
                  IF KnownVariant(use_bm25_variant)
                  THEN BM25Build(use_bm25_variant, TokenizeAll(documents \o texts))
                  ELSE bm25_retriever
             /\ IF AddOutcome(texts, encoder_ok) = "ok"
                THEN /\ AddPassages(texts, metadata)
                     /\ last_batch' = [lo |-> Len(documents), n |-> Len(texts)]
                ELSE UNCHANGED <<passage_embeddings, passages, passage_metadata,
                                 last_batch>>

\* A call of AdvancedHybridRetriever.add_documents(documents, metadata)
AddDocuments(texts, has_metadata, given, encoder_ok) ==
  /\ Len(documents) + Len(texts) <= MaxDocs
  /\ call' = [NoCall EXCEPT !.op = "add_documents",
                            !.outcome = AddOutcome(texts, encoder_ok),
                            !.n_texts = Len(texts),
                            !.n_metadata = IF has_metadata THEN Len(given) ELSE NoDocId]
  /\ results' = <<>>
  /\ AddDocumentsEffect(texts, has_metadata, given, encoder_ok)
  /\ UNCHANGED <<store, aux>>

\* search(query, top_k, mode)
Search(query, top_k, mode, sims, order) ==
  LET out == SearchOutcome(query, top_k, mode, sims, order)
  IN /\ call.searches < MaxSearches
     /\ call' = [NoCall EXCEPT !.op = "search", !.outcome = out.outcome,
                               !.top_k = top_k, !.mode = mode,
                               !.searches = call.searches + 1,
                               !.sims = sims, !.order = order]
     /\ results' = out.results
     /\ UNCHANGED <<retriever, last_batch, store, aux>>

\* clear_documents() without the call of DPRRetriever.clear_index()
ClearDocumentsKeepsDense ==
  /\ documents' = <<>>
  /\ document_metadata' = <<>>
  /\ bm25_retriever' = NoBM25
  /\ last_batch' = [lo |-> 0, n |-> 0]
  /\ UNCHANGED <<use_bm25_variant, fusion_method, normalize_scores, bm25_weight,
                 dpr_weight, passage_embeddings, passages, passage_metadata>>

\* What clear_documents() does, with DPRRetriever.clear_index()
ClearDocumentsEffect ==
  /\ documents' = <<>>
  /\ document_metadata' = <<>>
  /\ bm25_retriever' = NoBM25
  /\ passage_embeddings' = NoEmbeddings
  /\ passages' = <<>>
  /\ passage_metadata' = <<>>
  /\ last_batch' = [lo |-> 0, n |-> 0]
  /\ UNCHANGED <<use_bm25_variant, fusion_method, normalize_scores, bm25_weight,
                 dpr_weight>>

\* A call of AdvancedHybridRetriever.clear_documents()
ClearDocuments ==
  /\ ClearDocumentsEffect
  /\ call' = [NoCall EXCEPT !.op = "clear_documents"]
  /\ results' = <<>>
  /\ UNCHANGED <<store, aux>>

\* update_weights that also rebuilds the retriever's BM25 index from nothing
UpdateWeightsResetsIndex(w_bm25, w_dpr) ==
  /\ bm25_weight' = w_bm25
  /\ dpr_weight' = w_dpr
  /\ bm25_retriever' = NoBM25
  /\ call' = [NoCall EXCEPT !.op = "update_weights"]
  /\ results' = <<>>
  /\ UNCHANGED <<use_bm25_variant, fusion_method, normalize_scores, documents,
                 document_metadata, passage_embeddings, passages,
                 passage_metadata, last_batch, store, aux>>

\* update_weights(bm25_weight, dpr_weight)
UpdateWeights(w_bm25, w_dpr) ==
  /\ bm25_weight' = w_bm25
  /\ dpr_weight' = w_dpr
  /\ call' = [NoCall EXCEPT !.op = "update_weights"]
  /\ results' = <<>>
  /\ UNCHANGED <<use_bm25_variant, fusion_method, normalize_scores, documents,
                 document_metadata, bm25_retriever, passage_embeddings, passages,
                 passage_metadata, last_batch, store, aux>>

\* AdvancedHybridRetriever.__init__ with a fresh DPRRetriever; the weights are
\* the defaults 0.4 / 0.6
\* The configurations explored: every pairing of the known variants and fusion
\* methods, and each unknown name once
Configurations ==
  ({"bm25_plus", "bm25l"} \X {"weighted_sum", "rank_fusion"})
    \cup {<<"bm25x", "weighted_sum">>, <<"bm25_plus", "average">>}

\* The retriever and the call record as __init__ leaves them
InitRetriever ==
  /\ bm25_weight = 4
  /\ dpr_weight = 6
  /\ documents = <<>>
  /\ document_metadata = <<>>
  /\ bm25_retriever = NoBM25
  /\ passage_embeddings = NoEmbeddings
  /\ passages = <<>>
  /\ passage_metadata = <<>>
  /\ call = NoCall
  /\ results = <<>>
  /\ last_batch = [lo |-> 0, n |-> 0]

\* No pure function called on its own
NoArgs == [fn |-> "none"]
NoValue == [done |-> FALSE, outcome |-> "ok", out |-> <<>>]

\* No call in another thread
NoFlight == [op |-> "none", pc |-> 0, texts |-> <<>>, pre_n |-> 0]

\* VectorStore.__init__ before any upload
InitStore ==
  /\ in_flight = NoFlight
  /\ args = NoArgs
  /\ value = NoValue
  /\ collection = <<>>
  /\ hybrid_documents = <<>>
  /\ hybrid_metadata = <<>>
  /\ store_results = <<>>

\* An AdvancedHybridRetriever of any configuration, of a store that uses it
Init ==
  /\ \E c \in Configurations : use_bm25_variant = c[1] /\ fusion_method = c[2]
  /\ normalize_scores = TRUE
  /\ InitRetriever
  /\ use_advanced_retriever = TRUE
  /\ InitStore

TopKs == 0..MaxDocs

Next ==
  \/ \E texts \in Batches, has_metadata \in BOOLEAN, given \in MetadataLists,
        encoder_ok \in BOOLEAN :
       /\ (~has_metadata => given = <<>>)
       /\ (texts = <<>> => encoder_ok)
       /\ AddDocuments(texts, has_metadata, given, encoder_ok)
  \/ \E query \in Queries, top_k \in TopKs, mode \in Modes :
       \E sims \in [1..Rows(passage_embeddings) -> SimVals] :
         \E order \in ArgsortDescending(sims) :
           Search(query, top_k, mode, sims, order)
  \/ ClearDocuments
  \/ \E w \in WeightVals : UpdateWeights(w, 10 - w)

Spec == Init /\ [][Next]_vars

(***************************************************************************)
(* VectorStore (vector_store.py): the Chroma collection, and the retriever *)
(* the store was constructed with.  Chroma, rank_bm25 and the sentence     *)
(* encoder are external: their scores are drawn from outside.              *)
(***************************************************************************)
StoreDocIds == {"d1", "d2"}

\* document_ids as a caller passes it: None, or a list (its set of ids)
DocIdFilters ==
  {[given |-> FALSE, ids |-> {}]} \cup {[given |-> TRUE, ids |-> S] : S \in SUBSET StoreDocIds}

\* `if document_ids:` is false for None and for the empty list
Truthy(document_ids) == document_ids.given /\ document_ids.ids # {}

NoStoreResult ==
  [content |-> <<>>, metadata |-> GivenMetadata(NoId), distance |-> 0,
   bm25_score |-> 0, dpr_score |-> 0, fused_score |-> 0, hybrid_score |-> 0,
   semantic_score |-> 0, fusion_weights |-> [bm25 |-> 0, dpr |-> 0], kind |-> "none"]

\* 1.0 in the unit of the fused score: weights in tenths times scores in milli,
\* or the unit of the reciprocal rank scores
ScoreOne == IF fusion_method = "rank_fusion" THEN RRFUnit ELSE 10 * 1000

\* Lines 136-146: the retriever's results in the store's format
FormatResults(rs) ==
  List([i \in 1..Len(rs) |->
          [NoStoreResult EXCEPT !.content = rs[i].passage,
                                !.metadata = rs[i].metadata,
                                !.distance = ScoreOne - rs[i].score,
                                !.bm25_score = rs[i].bm25_score,
                                !.dpr_score = rs[i].dpr_score,
                                !.fused_score = rs[i].score,
                                !.fusion_weights = rs[i].fusion_weights,
                                !.kind = "advanced"]])

\* The indices of a sequence that satisfy a test, ascending
RECURSIVE IndicesFrom(_, _, _)
IndicesFrom(ms, i, ids) ==
  IF i > Len(ms) THEN <<>>
  ELSE IF ms[i].document_id \in ids THEN <<i>> \o IndicesFrom(ms, i + 1, ids)
  ELSE IndicesFrom(ms, i + 1, ids)

\* HybridRetriever.search lines 126-132
ValidIndices(document_ids) ==
  IF Truthy(document_ids) THEN IndicesFrom(hybrid_metadata, 1, document_ids.ids)
  ELSE List([i \in 1..Len(hybrid_documents) |-> i])

\* alpha = 0.6 and 1 - alpha, in tenths
Alpha == 6

\* HybridRetriever.search(query, k, document_ids); lex and sims are the BM25Okapi
\* scores and the cosine similarities of the stored documents
HybridSearch(k, document_ids, lex, sims) ==
  LET valid_indices == ValidIndices(document_ids)
      normalized_bm25 ==
        MinMaxNormalize(List([i \in 1..Len(valid_indices) |-> lex[valid_indices[i]]]))
      normalized_semantic ==
        MinMaxNormalize(List([i \in 1..Len(valid_indices) |-> sims[valid_indices[i]]]))
  IN IF hybrid_documents = <<>> \/ valid_indices = <<>> THEN <<>>
     ELSE Take(SortByScore(List([i \in 1..Len(valid_indices) |->
            [passage |-> hybrid_documents[valid_indices[i]],
             metadata |-> hybrid_metadata[valid_indices[i]],
             score |-> Alpha * normalized_bm25[i] + (10 - Alpha) * normalized_semantic[i],
             bm25_score |-> normalized_bm25[i],
             semantic_score |-> normalized_semantic[i]]])), k)

\* The hybrid retriever's result dictionaries
FormatHybrid(rs) ==
  List([i \in 1..Len(rs) |->
          [NoStoreResult EXCEPT !.content = rs[i].passage,
                                !.metadata = rs[i].metadata,
                                !.hybrid_score = rs[i].score,
                                !.bm25_score = rs[i].bm25_score,
                                !.semantic_score = rs[i].semantic_score,
                                !.distance = 1000 - rs[i].semantic_score,
                                !.kind = "hybrid"]])

\* _fallback_semantic_search: Chroma's k nearest chunks among those the where
\* clause keeps; order is Chroma's order of the chunks, nearest first
FallbackSemanticSearch(k, document_ids, sims, order) ==
  LET kept == SelectSeq(order,
                LAMBDA i : Truthy(document_ids) =>
                             collection[i].metadata.document_id \in document_ids.ids)
      top == Take(kept, k)
  IN List([i \in 1..Len(top) |->
             [NoStoreResult EXCEPT !.content = collection[top[i]].content,
                                   !.metadata = collection[top[i]].metadata,
                                   !.distance = 1000 - sims[top[i]],
                                   !.kind = "semantic"]])

\* The chunks collection.add stores
Chunks(texts, metadatas) ==
  List([i \in 1..Len(texts) |-> [content |-> texts[i], metadata |-> metadatas[i]]])

\* Lines 99-104: the caller's metadata with document_id set, or synthesized ones
StoreMetadatas(texts, has_metadatas, n_metadatas, document_id) ==
  IF has_metadatas /\ n_metadatas > 0
  THEN Repeat(GivenMetadata(document_id), n_metadatas)
  ELSE Repeat(GivenMetadata(document_id), Len(texts))

\* How VectorStore.add_documents ends: Chroma rejects lists of unequal length
\* before anything is stored
StoreAddOutcome(texts, metadatas, encoder_ok) ==
  IF texts = <<>> THEN "ok"
  ELSE IF Len(metadatas) # Len(texts) THEN "ValueError"
  ELSE IF use_advanced_retriever THEN AddOutcome(texts, encoder_ok)
  ELSE "ok"

\* VectorStore.add_documents(texts, metadatas, document_id)
StoreAddDocuments(texts, has_metadatas, n_metadatas, document_id, encoder_ok) ==
  LET metadatas == StoreMetadatas(texts, has_metadatas, n_metadatas, document_id)
      outcome == StoreAddOutcome(texts, metadatas, encoder_ok)
      stored == texts # <<>> /\ Len(metadatas) = Len(texts)
  IN /\ Len(collection) + Len(texts) <= MaxDocs
     /\ Len(documents) + Len(texts) <= MaxDocs
     /\ Len(hybrid_documents) + Len(texts) <= MaxDocs
     /\ call' = [NoCall EXCEPT !.op = "store.add_documents",
                               !.outcome = outcome,
                               !.n_texts = Len(texts),
                               !.n_metadata = IF has_metadatas THEN n_metadatas
                                              ELSE NoDocId,
                               !.returned = IF outcome = "ok" THEN Len(texts) ELSE 0]
     /\ results' = <<>>
     /\ store_results' = <<>>
     /\ UNCHANGED <<use_advanced_retriever, aux>>
     /\ collection' = IF stored THEN collection \o Chunks(texts, metadatas)
                      ELSE collection
     /\ IF stored /\ use_advanced_retriever
        THEN /\ AddDocumentsEffect(texts, TRUE, metadatas, encoder_ok)
             /\ UNCHANGED <<hybrid_documents, hybrid_metadata>>
        ELSE /\ UNCHANGED <<retriever, last_batch>>
             /\ hybrid_documents' = IF stored THEN hybrid_documents \o texts
                                    ELSE hybrid_documents
             /\ hybrid_metadata' = IF stored THEN hybrid_metadata \o metadatas
                                   ELSE hybrid_metadata

\* Which retriever answers similarity_search (lines 130-157)
AnsweredBy ==
  IF use_advanced_retriever
  THEN IF Len(documents) > 0 THEN "advanced" ELSE "semantic"
  ELSE IF hybrid_documents # <<>> THEN "hybrid" ELSE "semantic"

\* The rows the encoders score in a similarity_search, and those BM25Okapi scores
SimRows ==
  CASE AnsweredBy = "advanced" -> Rows(passage_embeddings)
    [] AnsweredBy = "hybrid" -> Len(hybrid_documents)
    [] OTHER -> Len(collection)

LexRows == IF AnsweredBy = "hybrid" THEN Len(hybrid_documents) ELSE 0

\* What similarity_search returns: [outcome, results, store_results]
SimilaritySearchOutcome(query, k, document_ids, mode, lex, sims, order) ==
  CASE AnsweredBy = "advanced" ->
         LET out == SearchOutcome(query, k, mode, sims, order)
         IN [outcome |-> out.outcome, results |-> out.results,
             store_results |-> FormatResults(out.results)]
    [] AnsweredBy = "hybrid" ->
         [outcome |-> "ok", results |-> <<>>,
          store_results |-> FormatHybrid(HybridSearch(k, document_ids, lex, sims))]
    [] OTHER ->
         [outcome |-> "ok", results |-> <<>>,
          store_results |-> FallbackSemanticSearch(k, document_ids, sims, order)]

\* VectorStore.similarity_search(query, k, document_ids, mode)
SimilaritySearch(query, k, document_ids, mode, lex, sims, order) ==
  LET out == SimilaritySearchOutcome(query, k, document_ids, mode, lex, sims, order)
  IN /\ call.searches < MaxSearches
     /\ call' = [NoCall EXCEPT !.op = "similarity_search", !.outcome = out.outcome,
                               !.top_k = k, !.mode = mode,
                               !.searches = call.searches + 1,
                               !.sims = sims, !.order = order,
                               !.filtered = document_ids.given,
                               !.document_ids = document_ids.ids]
     /\ results' = out.results
     /\ store_results' = out.store_results
     /\ UNCHANGED <<retriever, last_batch, use_advanced_retriever, collection,
                    hybrid_documents, hybrid_metadata, aux>>

\* VectorStore.clear_collection()
ClearCollection ==
  /\ collection' = <<>>
  /\ IF use_advanced_retriever
     THEN ClearDocumentsEffect /\ UNCHANGED <<hybrid_documents, hybrid_metadata>>
     ELSE /\ hybrid_documents' = <<>>
          /\ hybrid_metadata' = <<>>
          /\ UNCHANGED <<retriever, last_batch>>
  /\ call' = [NoCall EXCEPT !.op = "clear_collection"]
  /\ results' = <<>>
  /\ store_results' = <<>>
  /\ UNCHANGED <<use_advanced_retriever, aux>>

\* delete_specific_document(filename) of document_management.py, on the Chroma
\* collection every VectorStore of the process opens.  The upload route writes
\* filename and document_id together into every chunk of a file, so a file is
\* named here by its document_id.  No chunk of that name: HTTP 404.
DeleteSpecificDocument(filename) ==
  LET ids_to_delete == {i \in 1..Len(collection) :
                          collection[i].metadata.document_id = filename}
  IN /\ call' = [NoCall EXCEPT !.op = "delete_specific_document",
                               !.outcome = IF ids_to_delete = {} THEN "HTTP404" ELSE "ok",
                               !.document_ids = {filename},
                               !.returned = Cardinality(ids_to_delete)]
     /\ collection' = SelectSeq(collection,
                                LAMBDA chunk : chunk.metadata.document_id # filename)
     /\ results' = <<>>
     /\ store_results' = <<>>
     /\ UNCHANGED <<retriever, last_batch, use_advanced_retriever, hybrid_documents,
                    hybrid_metadata, aux>>

\* The process starts again: VectorStore.__init__ builds empty retrievers over
\* the collection the persistent client kept
Restart ==
  /\ collection # <<>>
  /\ collection' = collection
  /\ ClearDocumentsEffect
  /\ hybrid_documents' = <<>>
  /\ hybrid_metadata' = <<>>
  /\ call' = [NoCall EXCEPT !.op = "restart"]
  /\ results' = <<>>
  /\ store_results' = <<>>
  /\ UNCHANGED <<use_advanced_retriever, aux>>

\* A VectorStore with either retriever, configured as lines 48-54 and 64
InitStoreSpec ==
  /\ use_bm25_variant = "bm25_plus"
  /\ fusion_method = "weighted_sum"
  /\ normalize_scores = TRUE
  /\ InitRetriever
  /\ use_advanced_retriever \in BOOLEAN
  /\ InitStore

StoreKs == 1..MaxDocs

\* Scores BM25Okapi may produce, in milli
LexVals == {700}

StoreModes == {"normal", "fast"}

NextStore ==
  \/ \E texts \in Batches, has_metadatas \in BOOLEAN, n_metadatas \in 0..MaxBatch,
        document_id \in StoreDocIds, encoder_ok \in BOOLEAN :
       /\ (~has_metadatas => n_metadatas = 0)
       /\ (texts = <<>> => encoder_ok)
       /\ StoreAddDocuments(texts, has_metadatas, n_metadatas, document_id, encoder_ok)
  \/ \E query \in Queries, k \in StoreKs, document_ids \in DocIdFilters,
        mode \in StoreModes :
       \E lex \in [1..LexRows -> LexVals], sims \in [1..SimRows -> SimVals] :
         \E order \in ArgsortDescending(sims) :
           SimilaritySearch(query, k, document_ids, mode, lex, sims, order)
  \/ ClearCollection
  \/ \E filename \in StoreDocIds : DeleteSpecificDocument(filename)
  \/ Restart

SpecStore == InitStoreSpec /\ [][NextStore]_vars

(***************************************************************************)
(* Two threads on one AdvancedHybridRetriever.  The class takes no lock,   *)
(* so a thread in add_documents or clear_documents can be preempted        *)
(* between any two of its statements; in_flight.pc is the statement that   *)
(* thread has last executed, pre_n the corpus size when it entered.  The   *)
(* other thread searches.  metadata is None, the variant is a known one    *)
(* and the encoder returns: every call, run alone, succeeds.               *)
(***************************************************************************)
\* add_documents enters and executes line 247
BeginAdd(texts) ==
  /\ in_flight.op = "none"
  /\ texts # <<>>
  /\ Len(documents) + Len(texts) <= MaxDocs
  /\ in_flight' = [op |-> "add", pc |-> 1, texts |-> texts, pre_n |-> Len(documents)]
  /\ documents' = documents \o texts
  /\ UNCHANGED <<use_bm25_variant, fusion_method, normalize_scores, bm25_weight,
                 dpr_weight, document_metadata, bm25_retriever, passage_embeddings,
                 passages, passage_metadata, call, results, last_batch, store,
                 args, value>>

\* The metadata list of the call in flight, synthesized at lines 248-249
FlightMetadata ==
  List([i \in 1..Len(in_flight.texts) |-> SynthMetadata(in_flight.pre_n + i - 1)])

\* The next statement of the add_documents in flight: lines 250, 256-261,
\* then add_passages lines 157-163, 165 and 170
AddStep ==
  /\ in_flight.op = "add"
  /\ UNCHANGED <<use_bm25_variant, fusion_method, normalize_scores, bm25_weight,
                 dpr_weight, documents, results, store, args, value>>
  /\ CASE in_flight.pc = 1 ->
            /\ document_metadata' = document_metadata \o FlightMetadata
            /\ in_flight' = [in_flight EXCEPT !.pc = 2]
            /\ UNCHANGED <<bm25_retriever, passage_embeddings, passages,
                           passage_metadata, call, last_batch>>
       [] in_flight.pc = 2 ->
            /\ bm25_retriever' = BM25Build(use_bm25_variant, TokenizeAll(documents))
            /\ in_flight' = [in_flight EXCEPT !.pc = 3]
            /\ UNCHANGED <<document_metadata, passage_embeddings, passages,
                           passage_metadata, call, last_batch>>
       [] in_flight.pc = 3 ->
            /\ passage_embeddings' = VStack(passage_embeddings, Len(in_flight.texts))
            /\ in_flight' = [in_flight EXCEPT !.pc = 4]
            /\ UNCHANGED <<document_metadata, bm25_retriever, passages,
                           passage_metadata, call, last_batch>>
       [] in_flight.pc = 4 ->
            /\ passages' = passages \o in_flight.texts
            /\ in_flight' = [in_flight EXCEPT !.pc = 5]
            /\ UNCHANGED <<document_metadata, bm25_retriever, passage_embeddings,
                           passage_metadata, call, last_batch>>
       [] in_flight.pc = 5 ->
            /\ passage_metadata' = passage_metadata \o FlightMetadata
            /\ in_flight' = NoFlight
            /\ call' = [NoCall EXCEPT !.op = "add_documents",
                                      !.n_texts = Len(in_flight.texts),
                                      !.n_metadata = NoDocId]
            /\ last_batch' = [lo |-> in_flight.pre_n, n |-> Len(in_flight.texts)]
            /\ UNCHANGED <<document_metadata, bm25_retriever, passage_embeddings,
                           passages>>

\* clear_documents enters and executes line 373
BeginClear ==
  /\ in_flight.op = "none"
  /\ documents # <<>>
  /\ in_flight' = [op |-> "clear", pc |-> 1, texts |-> <<>>, pre_n |-> Len(documents)]
  /\ documents' = <<>>
  /\ UNCHANGED <<use_bm25_variant, fusion_method, normalize_scores, bm25_weight,
                 dpr_weight, document_metadata, bm25_retriever, passage_embeddings,
                 passages, passage_metadata, call, results, last_batch, store,
                 args, value>>

\* The next statement of the clear_documents in flight: lines 374, 375, then
\* clear_index lines 229, 230 and 231
ClearStep ==
  /\ in_flight.op = "clear"
  /\ UNCHANGED <<use_bm25_variant, fusion_method, normalize_scores, bm25_weight,
                 dpr_weight, documents, results, store, args, value>>
  /\ CASE in_flight.pc = 1 ->
            /\ document_metadata' = <<>>
            /\ in_flight' = [in_flight EXCEPT !.pc = 2]
            /\ UNCHANGED <<bm25_retriever, passage_embeddings, passages,
                           passage_metadata, call, last_batch>>
       [] in_flight.pc = 2 ->
            /\ bm25_retriever' = NoBM25
            /\ in_flight' = [in_flight EXCEPT !.pc = 3]
            /\ UNCHANGED <<document_metadata, passage_embeddings, passages,
                           passage_metadata, call, last_batch>>
       [] in_flight.pc = 3 ->
            /\ passage_embeddings' = NoEmbeddings
            /\ in_flight' = [in_flight EXCEPT !.pc = 4]
            /\ UNCHANGED <<document_metadata, bm25_retriever, passages,
                           passage_metadata, call, last_batch>>
       [] in_flight.pc = 4 ->
            /\ passages' = <<>>
            /\ in_flight' = [in_flight EXCEPT !.pc = 5]
            /\ UNCHANGED <<document_metadata, bm25_retriever, passage_embeddings,
                           passage_metadata, call, last_batch>>
       [] in_flight.pc = 5 ->
            /\ passage_metadata' = <<>>
            /\ in_flight' = NoFlight
            /\ call' = [NoCall EXCEPT !.op = "clear_documents"]
            /\ last_batch' = [lo |-> 0, n |-> 0]
            /\ UNCHANGED <<document_metadata, bm25_retriever, passage_embeddings,
                           passages>>

\* A retriever of a known variant and fusion method, no call in flight
InitConcurrent ==
  /\ use_bm25_variant \in {"bm25_plus", "bm25l"}
  /\ fusion_method \in {"weighted_sum", "rank_fusion"}
  /\ normalize_scores = TRUE
  /\ InitRetriever
  /\ use_advanced_retriever = TRUE
  /\ InitStore

\* The searching thread runs search whenever it is scheduled
NextConcurrent ==
  \/ \E texts \in Batches : BeginAdd(texts)
  \/ AddStep
  \/ BeginClear
  \/ ClearStep
  \/ \E query \in Queries, mode \in {"normal", "fast"} :
       \E sims \in [1..Rows(passage_embeddings) -> SimVals] :
         \E order \in ArgsortDescending(sims) :
           Search(query, MaxDocs, mode, sims, order)

SpecConcurrent == InitConcurrent /\ [][NextConcurrent]_vars

(***************************************************************************)
(* ScoreFusion.rank_fusion called on its own, with two rankings of the     *)
(* at most MaxItems items each (no item twice in a ranking).               *)
(***************************************************************************)
MaxItems == 3

\* doc_index values: the first few, and one that shares its slot with 0
Items == 0..(MaxItems - 1) \cup {8}

\* The orderings of the subsets of the items
ItemOrders ==
  {o \in UNION {[1..n -> Items] : n \in 0..MaxItems} :
     \A i, j \in 1..Len(o) : i # j => o[i] # o[j]}

\* A ranked result list: the result dictionaries of the items in that order
Ranking(order) ==
  List([i \in 1..Len(order) |->
          [NoResult EXCEPT !.doc_index = order[i], !.kind = "ranked"]])

\* The doc_index values of a result list, in its order
DocOrder(rs) == List([i \in 1..Len(rs) |-> rs[i].doc_index])

InitFusion ==
  /\ use_bm25_variant = "bm25_plus"
  /\ fusion_method = "rank_fusion"
  /\ normalize_scores = TRUE
  /\ InitRetriever
  /\ use_advanced_retriever = TRUE
  /\ collection = <<>>
  /\ hybrid_documents = <<>>
  /\ hybrid_metadata = <<>>
  /\ store_results = <<>>
  /\ in_flight = NoFlight
  /\ \E o1 \in ItemOrders, o2 \in ItemOrders :
       args = [fn |-> "rank_fusion", results1 |-> Ranking(o1), results2 |-> Ranking(o2)]
  /\ value = NoValue

\* rank_fusion(results1, results2) returns
ApplyRankFusion ==
  /\ args.fn = "rank_fusion"
  /\ ~value.done
  /\ value' = [done |-> TRUE, outcome |-> "ok",
                out |-> RankFusion(args.results1, args.results2)]
  /\ UNCHANGED <<retriever, call, results, last_batch, store, in_flight, args>>

NextFusion == ApplyRankFusion

SpecFusion == InitFusion /\ [][NextFusion]_vars

(***************************************************************************)
(* NeuralQALayer.extract_answer_spans (neural_qa.py) called on its own.    *)
(* The reader is an external model: for each passage it raises, or gives   *)
(* an answer text and a confidence (in milli).  Retrieval scores are in    *)
(* the unit of the fused scores the store passes, ScoreOne being 1.0.  The *)
(* positions of the answer and its context window are left out: nothing    *)
(* reads them here.                                                        *)
(***************************************************************************)
MaxPassages == 4

\* confidence_threshold = 0.1 and top_k_answers = 3
ConfidenceThreshold == 100
TopKAnswers == 3

\* str.strip()
RECURSIVE LStrip(_)
LStrip(s) == IF s # <<>> /\ Head(s) \in Whitespace THEN LStrip(Tail(s)) ELSE s

RECURSIVE RStrip(_)
RStrip(s) ==
  IF s # <<>> /\ s[Len(s)] \in Whitespace THEN RStrip(SubSeq(s, 1, Len(s) - 1)) ELSE s

Strip(s) == RStrip(LStrip(s))

\* A window that is not extended to the word boundary on its left
ContextStartUnextended(passage, context_start) == context_start

\* Lines 247-248 and 249-250 of _get_context_window: the window is extended
\* to the nearest ' ' or to the end of the passage (positions are 0-based)
RECURSIVE ContextStart(_, _)
ContextStart(passage, context_start) ==
  IF context_start > 0 /\ passage[context_start + 1] # " "
  THEN ContextStart(passage, context_start - 1)
  ELSE context_start

RECURSIVE ContextEnd(_, _)
ContextEnd(passage, context_end) ==
  IF context_end < Len(passage) /\ passage[context_end + 1] # " "
  THEN ContextEnd(passage, context_end + 1)
  ELSE context_end

\* _get_context_window(passage, start_pos, end_pos, window_size)
GetContextWindow(passage, start_pos, end_pos, window_size) ==
  LET context_start ==
        ContextStart(passage, IF start_pos > window_size THEN start_pos - window_size ELSE 0)
      context_end == ContextEnd(passage, Min2(Len(passage), end_pos + window_size))
      context == Strip(SubSeq(passage, context_start + 1, context_end))
  IN (IF context_start > 0 THEN <<".", ".", ".">> ELSE <<>>)
       \o context
       \o (IF context_end < Len(passage) THEN <<".", ".", ".">> ELSE <<>>)

\* What self.qa_pipeline(qa_input) may do on a passage
ReaderRaises == [raises |-> TRUE, answer |-> <<>>, score |-> 0]

ReaderOutcomes ==
  {ReaderRaises}
    \cup {[raises |-> FALSE, answer |-> <<" ", "c", "d">>, score |-> c] : c \in {50, 100, 900}}
    \cup {[raises |-> FALSE, answer |-> <<" ">>, score |-> 900]}

\* The passages of a call: retrieved texts, n of them
PassageList(n) == List([i \in 1..n |-> IF i % 2 = 1 THEN TextFox ELSE TextDog])

\* passage_scores as a caller passes it: None, the empty list, or one
\* retrieval score per passage
PassageScores(n) ==
  {[given |-> FALSE, scores |-> <<>>], [given |-> TRUE, scores |-> <<>>]}
    \cup {[given |-> TRUE, scores |-> sc] : sc \in [1..n -> {0, 5000}]}

\* passage_scores[i] if passage_scores and i < len(passage_scores) else 1.0
RetrievalScore(passage_scores, i) ==
  IF passage_scores.given /\ passage_scores.scores # <<>> /\ i < Len(passage_scores.scores)
  THEN passage_scores.scores[i + 1]
  ELSE ScoreOne

\* A reader result that passes any confidence
QualifiesAnyConfidence(r) == ~r.raises /\ Strip(r.answer) # <<>>

\* Line 118: confidence >= self.confidence_threshold and answer_text.strip(),
\* reached only when the reader did not raise
Qualifies(r) == ~r.raises /\ r.score >= ConfidenceThreshold /\ Strip(r.answer) # <<>>

\* The answer_span dictionary of passage i (0-based)
AnswerSpan(contexts, passage_scores, reader, i) ==
  [answer_text |-> Strip(reader[i + 1].answer),
   confidence |-> reader[i + 1].score,
   retrieval_score |-> RetrievalScore(passage_scores, i),
   combined_score |-> reader[i + 1].score * (ScoreOne + RetrievalScore(passage_scores, i)),
   passage_index |-> i,
   passage_text |-> contexts[i + 1]]

\* The loop of lines 99-141: answer_spans before sorting, from passage i on
RECURSIVE AnswerSpansFrom(_, _, _, _)
AnswerSpansFrom(contexts, passage_scores, reader, i) ==
  IF i >= Len(contexts) THEN <<>>
  ELSE (IF Qualifies(reader[i + 1])
        THEN <<AnswerSpan(contexts, passage_scores, reader, i)>>
        ELSE <<>>)
       \o AnswerSpansFrom(contexts, passage_scores, reader, i + 1)

\* answer_spans.sort(key=lambda x: x["combined_score"], reverse=True): stable
RECURSIVE InsertByCombined(_, _)
InsertByCombined(x, sorted) ==
  IF sorted = <<>> THEN <<x>>
  ELSE IF Head(sorted).combined_score >= x.combined_score
       THEN <<Head(sorted)>> \o InsertByCombined(x, Tail(sorted))
       ELSE <<x>> \o sorted

RECURSIVE SortByCombinedFrom(_, _)
SortByCombinedFrom(rest, sorted) ==
  IF rest = <<>> THEN sorted
  ELSE SortByCombinedFrom(Tail(rest), InsertByCombined(Head(rest), sorted))

\* extract_answer_spans(question, passages, passage_scores); contexts are the
\* passages it is given
ExtractAnswerSpans(contexts, passage_scores, reader) ==
  IF contexts = <<>> THEN <<>>
  ELSE Take(SortByCombinedFrom(AnswerSpansFrom(contexts, passage_scores, reader, 0), <<>>),
            TopKAnswers)

\* extract_answer_spans without the try / except around the reader
ExtractOutcomeUncaught(reader) ==
  IF \E i \in 1..Len(reader) : reader[i].raises THEN "Exception" ELSE "ok"

\* How extract_answer_spans ends: the except clause of lines 139-141 catches
\* whatever the body of the loop raises
ExtractOutcome(reader) == "ok"

InitQA ==
  /\ use_bm25_variant = "bm25_plus"
  /\ fusion_method = "weighted_sum"
  /\ normalize_scores = TRUE
  /\ InitRetriever
  /\ use_advanced_retriever = TRUE
  /\ collection = <<>>
  /\ hybrid_documents = <<>>
  /\ hybrid_metadata = <<>>
  /\ store_results = <<>>
  /\ in_flight = NoFlight
  /\ \E n \in 0..MaxPassages :
       \E reader \in [1..n -> ReaderOutcomes], passage_scores \in PassageScores(n) :
         args = [fn |-> "extract_answer_spans", passages |-> PassageList(n),
                 passage_scores |-> passage_scores, reader |-> List(reader)]
  /\ value = NoValue

\* extract_answer_spans returns
ApplyExtractAnswerSpans ==
  /\ args.fn = "extract_answer_spans"
  /\ ~value.done
  /\ value' = [done |-> TRUE, outcome |-> ExtractOutcome(args.reader),
               out |-> IF ExtractOutcome(args.reader) = "ok"
                       THEN ExtractAnswerSpans(args.passages, args.passage_scores,
                                               args.reader)
                       ELSE <<>>]
  /\ UNCHANGED <<retriever, call, results, last_batch, store, in_flight, args>>

NextQA == ApplyExtractAnswerSpans

SpecQA == InitQA /\ [][NextQA]_vars

(***************************************************************************)
(* VectorStore.similarity_search_with_qa: the store's search followed by   *)
(* the QA layer over what it returned.                                     *)
(***************************************************************************)
\* passage_scores read from the 'distance' key
QaPassageScoresByDistance(search_results) ==
  [given |-> TRUE,
   scores |-> List([i \in 1..Len(search_results) |-> search_results[i].distance])]

\* Line 185: result.get('fused_score', 0.0) of every retrieval result
QaPassageScores(search_results) ==
  [given |-> TRUE,
   scores |-> List([i \in 1..Len(search_results) |-> search_results[i].fused_score])]

\* Line 184: result['content'] of every retrieval result
QaPassages(search_results) ==
  List([i \in 1..Len(search_results) |-> search_results[i].content])

\* similarity_search_with_qa(query, k, document_ids, mode); reader is what the QA
\* pipeline does on each retrieved passage.  qa_results is None (value stays
\* NoValue) without the advanced retriever and for an empty retrieval result.
SimilaritySearchWithQA(query, k, document_ids, mode, lex, sims, order, reader) ==
  LET out == SimilaritySearchOutcome(query, k, document_ids, mode, lex, sims, order)
      with_qa == use_advanced_retriever /\ out.outcome = "ok" /\ out.store_results # <<>>
  IN /\ call.searches < MaxSearches
     /\ Len(reader) = IF with_qa THEN Len(out.store_results) ELSE 0
     /\ call' = [NoCall EXCEPT !.op = "similarity_search_with_qa",
                               !.outcome = out.outcome,
                               !.top_k = k, !.mode = mode,
                               !.searches = call.searches + 1,
                               !.sims = sims, !.order = order,
                               !.filtered = document_ids.given,
                               !.document_ids = document_ids.ids]
     /\ results' = out.results
     /\ store_results' = out.store_results
     /\ args' = IF with_qa
                THEN [fn |-> "extract_answer_spans",
                      passages |-> QaPassages(out.store_results),
                      passage_scores |-> QaPassageScores(out.store_results),
                      reader |-> reader]
                ELSE NoArgs
     /\ value' = IF with_qa
                 THEN [done |-> TRUE, outcome |-> ExtractOutcome(reader),
                       out |-> ExtractAnswerSpans(QaPassages(out.store_results),
                                                  QaPassageScores(out.store_results),
                                                  reader)]
                 ELSE NoValue
     /\ UNCHANGED <<retriever, last_batch, use_advanced_retriever, collection,
                    hybrid_documents, hybrid_metadata, in_flight>>

\* Uploads as the upload route makes them (one metadata record per chunk),
\* searches with QA, and restarts
NextStoreQA ==
  \/ \E texts \in Batches, document_id \in StoreDocIds :
       /\ texts # <<>>
       /\ StoreAddDocuments(texts, TRUE, Len(texts), document_id, TRUE)
  \/ \E query \in Queries, k \in StoreKs, mode \in {"normal"},
        document_ids \in {d \in DocIdFilters : ~d.given} :
       \E lex \in [1..LexRows -> LexVals], sims \in [1..SimRows -> SimVals] :
         \E order \in ArgsortDescending(sims) :
           \E n \in 0..MaxDocs :
             \E reader \in [1..n -> {r \in ReaderOutcomes : r.raises \/ r.score > 50}] :
               SimilaritySearchWithQA(query, k, document_ids, mode, lex, sims, order,
                                      List(reader))
  \/ Restart

SpecStoreQA == InitStoreSpec /\ [][NextStoreQA]_vars

(***************************************************************************)
(* The services of routes.py: the upload route adds to the VectorStore of  *)
(* line 18, RAG queries are answered by the RAGService of line 19, which   *)
(* builds a VectorStore of its own (rag_service.py:21).  Both open the one *)
(* persistent Chroma collection; each has retrievers of its own in memory. *)
(***************************************************************************)
\* rag_service.vector_store.advanced_retriever.documents: empty as constructed,
\* and no call of the application adds documents to this store
RagStoreDocuments == <<>>

\* k = max(settings.top_k_chunks, 5), top_k_chunks = 5 (config.py:13)
RagTopK == 5

\* mode.value.lower() of the ChatMode of the request
RagModes == {"normal", "pro"}

\* RAGService.query(query, mode, active_document_ids), lines 264-282: the
\* retrieval that selects the context of the answer.  The retriever of the
\* service's store holds RagStoreDocuments, so line 130 of similarity_search
\* falls through to _fallback_semantic_search over the collection.
RagQuery(query, mode, document_ids, sims, order, reader) ==
  LET search_results == FallbackSemanticSearch(RagTopK, document_ids, sims, order)
      with_qa == search_results # <<>>
  IN /\ Len(RagStoreDocuments) = 0
     /\ call.searches < MaxSearches
     /\ Len(reader) = Len(search_results)
     /\ call' = [NoCall EXCEPT !.op = "rag.query",
                               !.outcome = IF search_results = <<>>
                                           THEN "no_documents" ELSE "ok",
                               !.top_k = RagTopK, !.mode = mode,
                               !.searches = call.searches + 1,
                               !.sims = sims, !.order = order,
                               !.filtered = document_ids.given,
                               !.document_ids = document_ids.ids]
     /\ results' = <<>>
     /\ store_results' = search_results
     /\ args' = IF with_qa
                THEN [fn |-> "extract_answer_spans",
                      passages |-> QaPassages(search_results),
                      passage_scores |-> QaPassageScores(search_results),
                      reader |-> reader]
                ELSE NoArgs
     /\ value' = IF with_qa
                 THEN [done |-> TRUE, outcome |-> ExtractOutcome(reader),
                       out |-> ExtractAnswerSpans(QaPassages(search_results),
                                                  QaPassageScores(search_results),
                                                  reader)]
                 ELSE NoValue
     /\ UNCHANGED <<retriever, last_batch, use_advanced_retriever, collection,
                    hybrid_documents, hybrid_metadata, in_flight>>

\* Both services are constructed with use_advanced_retriever=True
InitRag == InitStoreSpec /\ use_advanced_retriever

\* Uploads and clears on the route's store, queries on the RAG service
NextRag ==
  \/ \E texts \in Batches, document_id \in StoreDocIds, encoder_ok \in BOOLEAN :
       /\ texts # <<>>
       /\ StoreAddDocuments(texts, TRUE, Len(texts), document_id, encoder_ok)
  \/ \E query \in Queries, mode \in RagModes,
        document_ids \in {d \in DocIdFilters : Cardinality(d.ids) <= 1} :
       \E sims \in [1..Len(collection) -> SimVals] :
         \E order \in ArgsortDescending(sims) :
           \E n \in 0..MaxDocs :
             \E reader \in [1..n -> {r \in ReaderOutcomes : r.raises \/ r.score > 100}] :
               RagQuery(query, mode, document_ids, sims, order, List(reader))
  \/ ClearCollection

SpecRag == InitRag /\ [][NextRag]_vars

(***************************************************************************)
(* RAGService.query_streaming (rag_service.py): a generator.  The          *)
(* retrieval and the two language models are external: what the retrieval  *)
(* does, and how many chunks each model streams before it ends or raises,  *)
(* are drawn from outside.  value.out is the list of the events yielded so *)
(* far, value.done whether the generator has returned.                     *)
(***************************************************************************)
MaxChunks == 2

\* A generate_streaming_response that lets the failure of the fallback model out
StreamOutcomeUncaught(primary, fallback) ==
  [tokens |-> Repeat("primary", primary.chunks)
                \o (IF primary.fails THEN Repeat("fallback", fallback.chunks) ELSE <<>>),
   raises |-> primary.fails /\ fallback.fails]

\* generate_streaming_response(messages): the chunks of the primary model; when
\* it raises, those of the fallback model; when that raises too, an "Error: ..."
\* string.  No exception leaves it.
StreamOutcome(primary, fallback) ==
  [tokens |-> Repeat("primary", primary.chunks)
                \o (IF primary.fails
                    THEN Repeat("fallback", fallback.chunks)
                           \o (IF fallback.fails THEN <<"Error">> ELSE <<>>)
                    ELSE <<>>),
   raises |-> FALSE]

\* The events query_streaming yields, in order, as [type, content]: lines
\* 434-462 (retrieval, no documents), 495-518 (metadata, tokens, done), and
\* 520-546 (except Exception)
QueryStreamingEvents(retrieval, primary, fallback) ==
  LET stream == StreamOutcome(primary, fallback)
  IN CASE retrieval = "raises_api_key" -> <<[type |-> "error", content |-> "api_key"]>>
       [] retrieval = "raises" -> <<[type |-> "error", content |-> "exception"]>>
       [] retrieval = "empty" -> <<[type |-> "error", content |-> "no_documents"]>>
       [] OTHER ->
            <<[type |-> "metadata", content |-> ""]>>
              \o List([i \in 1..Len(stream.tokens) |->
                         [type |-> "token", content |-> stream.tokens[i]]])
              \o (IF stream.raises THEN <<[type |-> "error", content |-> "exception"]>>
                  ELSE <<[type |-> "done", content |-> ""]>>)

\* A call of query_streaming, before the first next() of its consumer
InitStream ==
  /\ use_bm25_variant = "bm25_plus"
  /\ fusion_method = "weighted_sum"
  /\ normalize_scores = TRUE
  /\ InitRetriever
  /\ use_advanced_retriever = TRUE
  /\ collection = <<>>
  /\ hybrid_documents = <<>>
  /\ hybrid_metadata = <<>>
  /\ store_results = <<>>
  /\ in_flight = NoFlight
  /\ \E retrieval \in {"raises_api_key", "raises", "empty", "found"},
        primary, fallback \in [chunks : 0..MaxChunks, fails : BOOLEAN] :
       args = [fn |-> "query_streaming", retrieval |-> retrieval,
               primary |-> primary, fallback |-> fallback]
  /\ value = NoValue

\* next() on the generator: it runs to its next yield, or returns
NextStream ==
  LET events == QueryStreamingEvents(args.retrieval, args.primary, args.fallback)
  IN /\ ~value.done
     /\ UNCHANGED <<retriever, call, results, last_batch, store, in_flight, args>>
     /\ \/ /\ Len(value.out) < Len(events)
           /\ value' = [value EXCEPT !.out = Append(@, events[Len(@) + 1])]
        \/ /\ Len(value.out) = Len(events)
           /\ value' = [value EXCEPT !.done = TRUE]

SpecStream == InitStream /\ [][NextStream]_vars

(***************************************************************************)
(* DPRRetriever.load_index on the dense index of a retriever.  A persisted *)
(* file holds an embedding matrix, a passage list and a metadata list of   *)
(* whatever lengths it was written with.                                   *)
(***************************************************************************)
IndexFiles ==
  [rows : 0..MaxDocs,
   passages : {Take(<<TextFox, TextDog>>, n) : n \in 0..MaxDocs},
   metadata : MetadataLists]

\* load_index(filepath): np.load raises when the file cannot be read; otherwise
\* lines 264-266 assign the three arrays of the file
LoadIndex(file, readable) ==
  /\ args' = [fn |-> "load_index", file |-> file]
  /\ call' = [NoCall EXCEPT !.op = "load_index",
                            !.outcome = IF readable THEN "ok" ELSE "IOError"]
  /\ results' = <<>>
  /\ IF readable
     THEN /\ passage_embeddings' = [is_none |-> FALSE, rows |-> file.rows]
          /\ passages' = file.passages
          /\ passage_metadata' = file.metadata
     ELSE UNCHANGED <<passage_embeddings, passages, passage_metadata>>
  /\ UNCHANGED <<use_bm25_variant, fusion_method, normalize_scores, bm25_weight,
                 dpr_weight, documents, document_metadata, bm25_retriever,
                 last_batch, store, in_flight, value>>

NextIndex ==
  \/ \E texts \in Batches : texts # <<>> /\ AddDocuments(texts, FALSE, <<>>, TRUE)
  \/ \E file \in IndexFiles, readable \in BOOLEAN : LoadIndex(file, readable)
  \/ ClearDocuments

SpecIndex == InitConcurrent /\ [][NextIndex]_vars

(***************************************************************************)
(* The pure functions of the retrieval stack called on their own:          *)
(* ScoreFusion.min_max_normalize on a list of scores (in milli),           *)
(* AdvancedHybridRetriever._preprocess_text on a text, and                 *)
(* NeuralQALayer._get_context_window on a passage of letters and spaces    *)
(* with the character range of an answer that is not blank.                *)
(***************************************************************************)
MaxScores == 3
MaxChars == 5
MaxTokens == 2

\* The score lists and the texts the functions are called with
ScoreLists == UNION {[1..n -> {0 - 500, 0, 400, 1500}] : n \in 0..MaxScores}

CharTexts == UNION {[1..n -> {"a", "B", " ", "-"}] : n \in 0..MaxChars}

\* Tokenized passages and queries, the empty one included, and corpora of them
TokenLists == UNION {[1..n -> {"fox", "dog"}] : n \in 0..MaxTokens}

Corpora == UNION {[1..n -> {List(doc) : doc \in TokenLists}] : n \in 0..MaxDocs}

InitFunctions ==
  /\ use_bm25_variant = "bm25_plus"
  /\ fusion_method = "weighted_sum"
  /\ normalize_scores = TRUE
  /\ InitRetriever
  /\ use_advanced_retriever = TRUE
  /\ collection = <<>>
  /\ hybrid_documents = <<>>
  /\ hybrid_metadata = <<>>
  /\ store_results = <<>>
  /\ in_flight = NoFlight
  /\ \/ \E scores \in ScoreLists : args = [fn |-> "min_max_normalize", scores |-> List(scores)]
     \/ \E text \in CharTexts : args = [fn |-> "_preprocess_text", text |-> List(text)]
     \/ \E passage \in UNION {[1..n -> {"a", " "}] : n \in 1..MaxChars} :
          \E end_pos \in 1..Len(passage), window_size \in {1, 2} :
            \E start_pos \in 0..(end_pos - 1) :
              /\ Strip(SubSeq(passage, start_pos + 1, end_pos)) # <<>>
              /\ args = [fn |-> "_get_context_window", passage |-> List(passage),
                         start_pos |-> start_pos, end_pos |-> end_pos,
                         window_size |-> window_size]
     \/ \E variant \in {"bm25_plus", "bm25l"}, corpus \in Corpora, query \in TokenLists :
          args = [fn |-> "get_scores", variant |-> variant, corpus |-> List(corpus),
                  query |-> List(query)]
  /\ value = NoValue

\* The function called returns
NextFunctions ==
  /\ ~value.done
  /\ UNCHANGED <<retriever, call, results, last_batch, store, in_flight, args>>
  /\ \/ /\ args.fn = "min_max_normalize"
        /\ value' = [done |-> TRUE, outcome |-> "ok", out |-> MinMaxNormalize(args.scores)]
     \/ /\ args.fn = "_preprocess_text"
        /\ value' = [done |-> TRUE, outcome |-> "ok", out |-> PreprocessText(args.text)]
     \/ /\ args.fn = "_get_context_window"
        /\ value' = [done |-> TRUE, outcome |-> "ok",
                     out |-> GetContextWindow(args.passage, args.start_pos, args.end_pos,
                                              args.window_size)]
     \/ /\ args.fn = "get_scores"
        /\ LET bm == BM25Build(args.variant, args.corpus)
               raises == GetScoresDividesByZero(bm, args.query)
           IN value' = [done |-> TRUE,
                        outcome |-> IF raises THEN "ZeroDivisionError" ELSE "ok",
                        out |-> IF raises THEN <<>> ELSE GetScores(bm, args.query)]

SpecFunctions == InitFunctions /\ [][NextFunctions]_vars

(***************************************************************************)
(* The claims.                                                             *)
(***************************************************************************)
\* C1: after any sequence of add_documents, clear_documents, update_weights
\* and search calls, once the last call has returned, the number of stored
\* passages, of metadata records and of DPR passages and embedding rows are
\* all equal.
C1_LockstepAfterReturn ==
  call.outcome = "ok"
    => /\ Len(documents) = Len(document_metadata)
       /\ Len(documents) = Len(passages)
       /\ Len(passages) = Rows(passage_embeddings)

\* C2: an add_documents call in which the encoder fails leaves documents,
\* document_metadata, the BM25 index and the dense index as they were.
C2_EncoderFailureLeavesState ==
  [][(call'.op = "add_documents" /\ call'.outcome = "EncoderError")
       => UNCHANGED retriever]_vars

\* C3: add_documents with a metadata list whose length differs from the
\* number of texts fails with an invalid-input error (ValueError) and adds
\* nothing (on a retriever of a known BM25 variant, the encoder working).
C3_MismatchRejected ==
  [][(/\ call'.op = "add_documents"
      /\ KnownVariant(use_bm25_variant)
      /\ call'.outcome # "EncoderError"
      /\ call'.n_metadata # NoDocId
      /\ call'.n_metadata # call'.n_texts)
       => (call'.outcome = "ValueError" /\ UNCHANGED retriever)]_vars

\* C4: every passage similarity_search returns for a document_ids list has
\* its metadata document_id in that list, whichever retriever backs the store.
C4_OnlyListedDocuments ==
  (call.op = "similarity_search" /\ call.outcome = "ok" /\ call.filtered
     /\ call.document_ids # {})
    => \A i \in 1..Len(store_results) :
         store_results[i].metadata.document_id \in call.document_ids

\* C5: a search with top_k at least the corpus size, made after an
\* add_documents call returned, returns every passage of that call at its
\* doc_index (for the BM25 variants and fusion methods the retriever knows).
C5_SearchObservesBatch ==
  (/\ call.op = "search"
   /\ KnownVariant(use_bm25_variant)
   /\ fusion_method \in {"weighted_sum", "rank_fusion"}
   /\ call.top_k >= Len(documents))
    => /\ call.outcome = "ok"
       /\ \A d \in last_batch.lo..(last_batch.lo + last_batch.n - 1) :
            \E i \in 1..Len(results) :
              results[i].doc_index = d /\ results[i].passage = documents[d + 1]

\* C6: search on a retriever that holds no passages returns the empty list
\* without raising, for every query, top_k, mode and fusion method.
C6_EmptySearch ==
  (call.op = "search" /\ documents = <<>>)
    => (call.outcome = "ok" /\ results = <<>>)

C6_Witness ==
  /\ call.op = "search"
  /\ documents = <<>>
  /\ call.top_k = MaxDocs
  /\ call.mode = "fast"
  /\ fusion_method = "average"
  /\ results = <<>>

\* C7: every result of a search carries the weights (0.7, 0.3) when the
\* lower-cased mode is "normal", (0.3, 0.7) when it is "pro", and the
\* instance's current default weights for any other mode; a search with
\* another mode raises only what a search of any mode raises there (an
\* unknown fusion method, a metadata list shorter than the passages, a
\* missing BM25 index).
C7_ModeWeights ==
  call.op = "search" =>
    /\ \A i \in 1..Len(results) :
         results[i].fusion_weights =
           IF call.mode \in {"normal", "Normal", "NORMAL"}
           THEN [bm25 |-> 7, dpr |-> 3]
           ELSE IF call.mode \in {"pro", "Pro", "PRO"}
           THEN [bm25 |-> 3, dpr |-> 7]
           ELSE [bm25 |-> bm25_weight, dpr |-> dpr_weight]
    /\ (call.mode = "fast" /\ call.outcome # "ok")
         => \/ fusion_method \notin {"weighted_sum", "rank_fusion"}
            \/ Len(passage_metadata) < Len(passages)
            \/ bm25_retriever = NoBM25

C7_Witness ==
  /\ call.op = "search"
  /\ call.mode = "PRO"
  /\ Len(results) = MaxDocs
  /\ \A i \in 1..Len(results) : results[i].fusion_weights = [bm25 |-> 3, dpr |-> 7]

\* C8: update_weights changes only the instance's default weights: the
\* corpus, the metadata, the BM25 index and the dense index stay as they
\* were, modes normal and pro keep their weights, and any other mode gets
\* the new weights.
C8_UpdateWeightsFrame ==
  [][call'.op = "update_weights"
       => /\ UNCHANGED <<use_bm25_variant, fusion_method, normalize_scores,
                         documents, document_metadata, bm25_retriever,
                         passage_embeddings, passages, passage_metadata>>
          /\ ModeWeights("normal")' = ModeWeights("normal")
          /\ ModeWeights("PRO")' = ModeWeights("PRO")
          /\ bm25_weight' \in WeightVals
          /\ ModeWeights("fast")' = [bm25 |-> bm25_weight', dpr |-> 10 - bm25_weight']]_vars

C8_Witness ==
  /\ call.op = "update_weights"
  /\ Len(documents) = MaxDocs
  /\ bm25_retriever # NoBM25
  /\ bm25_weight \in WeightVals

\* C9: under weighted_sum the results are in descending order of fused
\* score, results of equal score in ascending doc_index order, and the
\* returned list is the first top_k entries of the list a search for the
\* whole corpus returns.
C9_WeightedSumOrder ==
  (call.op = "search" /\ call.outcome = "ok" /\ fusion_method = "weighted_sum")
    => LET full == SearchOutcome(TextAsk, Len(documents), call.mode, call.sims,
                                 call.order).results
       IN /\ \A i, j \in 1..Len(full) :
               i < j => \/ full[i].score > full[j].score
                        \/ /\ full[i].score = full[j].score
                           /\ full[i].doc_index < full[j].doc_index
          /\ Len(results) = Min2(call.top_k, Len(full))
          /\ \A i \in 1..Len(results) : results[i] = full[i]

C9_Witness ==
  /\ call.op = "search"
  /\ call.outcome = "ok"
  /\ fusion_method = "weighted_sum"
  /\ Len(results) = MaxDocs
  /\ results[1].score = results[MaxDocs].score
  /\ results[1].doc_index < results[MaxDocs].doc_index

\* C10: for a corpus of N passages search returns min(top_k, N) results of
\* pairwise distinct doc_index in 0..N-1, each carrying the passage and the
\* metadata stored at its doc_index, under weighted_sum and rank fusion.
C10_ResultShape ==
  (/\ call.op = "search"
   /\ KnownVariant(use_bm25_variant)
   /\ fusion_method \in {"weighted_sum", "rank_fusion"})
    => /\ call.outcome = "ok"
       /\ Len(results) = Min2(call.top_k, Len(documents))
       /\ \A i, j \in 1..Len(results) :
            i # j => results[i].doc_index # results[j].doc_index
       /\ \A i \in 1..Len(results) :
            /\ results[i].doc_index \in 0..(Len(documents) - 1)
            /\ results[i].passage = documents[results[i].doc_index + 1]
            /\ results[i].metadata = document_metadata[results[i].doc_index + 1]

\* C11: when clear_documents returns, the corpus, the metadata list, the BM25
\* index and the dense index are all empty, whatever preceded it; an
\* add_documents that follows fills the corpus from doc_index 0.
C11_ClearEmpties ==
  [][/\ call'.op = "clear_documents"
         => /\ documents' = <<>>
            /\ document_metadata' = <<>>
            /\ bm25_retriever' = NoBM25
            /\ passage_embeddings' = NoEmbeddings
            /\ passages' = <<>>
            /\ passage_metadata' = <<>>
     /\ (call.op = "clear_documents" /\ call'.op = "add_documents")
         => /\ Len(documents') = call'.n_texts
            /\ (call'.n_texts > 0 /\ call'.n_metadata = NoDocId)
                 => document_metadata'[1] = SynthMetadata(0)
            /\ (call'.n_texts > 0 /\ call'.outcome = "ok")
                 => /\ last_batch' = [lo |-> 0, n |-> call'.n_texts]
                    /\ Len(passages') = call'.n_texts]_vars

C11_Witness ==
  /\ call.op = "clear_documents"
  /\ bm25_weight \in WeightVals
  /\ documents = <<>>
  /\ passages = <<>>


\* C12: a search that runs while add_documents or clear_documents is in flight
\* on the same retriever reads the corpus, the metadata list, the BM25 index
\* and the dense index all as they were before that call or all as they are
\* after it, never some of one and some of the other.
C12_SearchSeesWholeState ==
  [][(call'.op = "search" /\ call'.searches = call.searches + 1 /\ in_flight.op # "none")
       => \E n \in {in_flight.pre_n,
                    IF in_flight.op = "add" THEN in_flight.pre_n + Len(in_flight.texts) ELSE 0} :
            /\ Len(documents) = n
            /\ Len(document_metadata) = n
            /\ bm25_retriever.corpus_size = n
            /\ Rows(passage_embeddings) = n
            /\ Len(passages) = n
            /\ Len(passage_metadata) = n]_vars

\* C13: once delete_specific_document has succeeded for a document, the search
\* that follows on a store of the advanced retriever returns no passage of that
\* document.
C13_DeletedNotReturned ==
  [][(/\ use_advanced_retriever
      /\ call.op = "delete_specific_document"
      /\ call.outcome = "ok"
      /\ call'.op = "similarity_search")
       => \A i \in 1..Len(store_results') :
            store_results'[i].metadata.document_id \notin call.document_ids]_vars

\* C14: over a corpus of exactly one passage, a search in mode normal with
\* top_k >= 1 whose query shares a token with the passage returns that passage
\* with bm25_score > 0 and fused score > 0 (BM25+ with weighted-sum fusion, as
\* the store configures the retriever).
C14_SinglePassagePositive ==
  (/\ call.op = "search"
   /\ call.outcome = "ok"
   /\ call.mode = "normal"
   /\ call.top_k >= 1
   /\ use_bm25_variant = "bm25_plus"
   /\ fusion_method = "weighted_sum"
   /\ Len(documents) = 1
   /\ Len(document_metadata) = 1
   /\ bm25_retriever.corpus_size = 1
   /\ Len(passages) = 1
   /\ Len(passage_metadata) = 1
   /\ Range(PreprocessText(TextAsk)) \cap Range(PreprocessText(documents[1])) # {})
    => /\ Len(results) = 1
       /\ results[1].passage = documents[1]
       /\ results[1].bm25_score > 0
       /\ results[1].score > 0

C20_SelfFusion ==
  (value.done /\ args.fn = "rank_fusion")
    => /\ args.results1 = args.results2 => DocOrder(value.out) = DocOrder(args.results1)
       /\ \A i \in 1..Len(value.out) : value.out[i].rrf_score > 0
       /\ args.results2 = <<>>
            => /\ DocOrder(value.out) = DocOrder(args.results1)
               /\ \A i \in 1..Len(value.out) :
                    /\ value.out[i].rrf_score = RRFUnit \div (RRFK + i)
                    /\ i > 1 => value.out[i - 1].rrf_score > value.out[i].rrf_score

C20_Witness ==
  /\ value.done
  /\ args.fn = "rank_fusion"
  /\ args.results1 = args.results2
  /\ DocOrder(args.results1) = <<2, 0, 1>>
  /\ DocOrder(value.out) = <<2, 0, 1>>

\* C16: extract_answer_spans returns only spans of passages whose reader
\* confidence is >= confidence_threshold and whose trimmed answer is not empty,
\* each with combined_score = confidence * (1 + retrieval_score), in descending
\* order of combined_score, at most top_k_answers of them, and it omits no
\* qualifying span that has a higher combined_score than one it returns.
C16_SpansFilteredSortedCapped ==
  (value.done /\ args.fn = "extract_answer_spans")
    => LET out == value.out
           n == Len(args.passages)
           returned == {out[i].passage_index : i \in 1..Len(out)}
       IN /\ \A i \in 1..Len(out) :
               LET r == args.reader[out[i].passage_index + 1]
               IN /\ ~r.raises
                  /\ r.score >= ConfidenceThreshold
                  /\ Strip(r.answer) # <<>>
                  /\ out[i].answer_text = Strip(r.answer)
                  /\ out[i].confidence = r.score
                  /\ out[i].combined_score = out[i].confidence * (ScoreOne + out[i].retrieval_score)
          /\ \A i, j \in 1..Len(out) :
               /\ i < j => out[i].combined_score >= out[j].combined_score
               /\ i # j => out[i].passage_index # out[j].passage_index
          /\ Len(out) <= TopKAnswers
          /\ \A p \in 0..(n - 1) :
               (/\ p \notin returned
                /\ ~args.reader[p + 1].raises
                /\ args.reader[p + 1].score >= ConfidenceThreshold
                /\ Strip(args.reader[p + 1].answer) # <<>>)
                 => /\ Len(out) = TopKAnswers
                    /\ \A i \in 1..Len(out) :
                         out[i].combined_score
                           >= args.reader[p + 1].score
                                * (ScoreOne + RetrievalScore(args.passage_scores, p))

\* More qualifying passages than top_k_answers, of different combined scores
\* and not in descending order: the result is sorted and one span is cut
C16_Witness ==
  /\ value.done
  /\ args.fn = "extract_answer_spans"
  /\ Len(args.passages) > TopKAnswers
  /\ \A i \in 1..Len(args.reader) :
       /\ ~args.reader[i].raises
       /\ Strip(args.reader[i].answer) # <<>>
       /\ args.reader[i].score >= ConfidenceThreshold
  /\ Len(value.out) = TopKAnswers
  /\ value.out[1].combined_score > value.out[TopKAnswers].combined_score
  /\ value.out[1].passage_index > value.out[2].passage_index

\* C17: when the reader raises on some passages, extract_answer_spans does not
\* raise; it returns what it would return had the reader given those passages an
\* empty answer, every span carries the position and the text of its passage in
\* the input list, and an empty passage list gives an empty list.
C17_ReaderErrorsSkipped ==
  (value.done /\ args.fn = "extract_answer_spans")
    => /\ value.outcome = "ok"
       /\ value.out =
            ExtractAnswerSpans(args.passages, args.passage_scores,
              List([i \in 1..Len(args.reader) |->
                      IF args.reader[i].raises
                      THEN [raises |-> FALSE, answer |-> <<>>, score |-> 900]
                      ELSE args.reader[i]]))
       /\ \A i \in 1..Len(value.out) :
            /\ value.out[i].passage_index \in 0..(Len(args.passages) - 1)
            /\ ~args.reader[value.out[i].passage_index + 1].raises
            /\ value.out[i].passage_text = args.passages[value.out[i].passage_index + 1]
            /\ value.out[i].confidence = args.reader[value.out[i].passage_index + 1].score
       /\ args.passages = <<>> => value.out = <<>>

\* The reader raised on the first passage and a later passage gave a span
C17_Witness ==
  /\ value.done
  /\ args.fn = "extract_answer_spans"
  /\ Len(args.reader) >= 2
  /\ args.reader[1].raises
  /\ Len(value.out) >= 1
  /\ value.out[1].passage_index >= 1

\* C18: when similarity_search_with_qa of a store with the advanced retriever
\* returns a non-empty retrieval result, every QA span has 0 <= passage_index < len(retrieval_results),
\* its passage_text is the content and its retrieval_score the fused_score (0.0
\* where a result has no such key) of the retrieval result at that index; and
\* retrieval_results is what similarity_search returns for the same query, k,
\* document_ids and mode.
C18_SpansPointAtRetrieval ==
  (/\ call.op = "similarity_search_with_qa"
   /\ call.outcome = "ok"
   /\ store_results # <<>>
   /\ use_advanced_retriever)
    => /\ store_results =
            SimilaritySearchOutcome(TextAsk, call.top_k,
                                    [given |-> call.filtered, ids |-> call.document_ids],
                                    call.mode, <<>>, call.sims, call.order).store_results
       /\ value.done
       /\ \A i \in 1..Len(value.out) :
            LET p == value.out[i].passage_index
            IN /\ 0 <= p /\ p < Len(store_results)
               /\ value.out[i].passage_text = store_results[p + 1].content
               /\ value.out[i].retrieval_score = store_results[p + 1].fused_score

\* Two passages retrieved by the advanced retriever, the span of the second
\* ranked before the span of the first
C18_Witness ==
  /\ call.op = "similarity_search_with_qa"
  /\ call.outcome = "ok"
  /\ Len(store_results) = 2
  /\ store_results[1].kind = "advanced"
  /\ store_results[1].fused_score # store_results[2].fused_score
  /\ value.done
  /\ Len(value.out) = 2
  /\ value.out[1].passage_index = 1

\* C19: load_index of a persisted index whose passages, metadata records and
\* embedding rows are not all equal in number ends with an error and leaves
\* the in-memory dense index as it was.
C19_InconsistentIndexRejected ==
  [][(/\ call'.op = "load_index"
      /\ args'.fn = "load_index"
      /\ call'.outcome # "IOError"
      /\ ~(/\ args'.file.rows = Len(args'.file.passages)
           /\ Len(args'.file.metadata) = Len(args'.file.passages)))
       => /\ call'.outcome # "ok"
          /\ UNCHANGED <<passage_embeddings, passages, passage_metadata>>]_vars

\* C21: rank_fusion returns every doc_index that occurs in at least one input
\* list exactly once, with the sum of 1/(k + rank) over the lists that hold it
\* as its score, in descending order of that score and, among equal scores, in
\* ascending order of doc_index.
C21_UnionScoredOrdered ==
  (value.done /\ args.fn = "rank_fusion")
    => LET out == value.out
           Contribution(rs, d) ==
             IF \E r \in 1..Len(rs) : rs[r].doc_index = d
             THEN RRFUnit \div (RRFK + (CHOOSE r \in 1..Len(rs) : rs[r].doc_index = d))
             ELSE 0
       IN /\ {out[i].doc_index : i \in 1..Len(out)}
               = DocIndexes(args.results1) \cup DocIndexes(args.results2)
          /\ \A i, j \in 1..Len(out) : i # j => out[i].doc_index # out[j].doc_index
          /\ \A i \in 1..Len(out) :
               out[i].rrf_score = Contribution(args.results1, out[i].doc_index)
                                    + Contribution(args.results2, out[i].doc_index)
          /\ \A i, j \in 1..Len(out) :
               i < j => \/ out[i].rrf_score > out[j].rrf_score
                        \/ /\ out[i].rrf_score = out[j].rrf_score
                           /\ out[i].doc_index < out[j].doc_index

\* C22: min_max_normalize returns a list as long as its input with every value
\* in [0, 1]; for an input of at least two distinct values the output holds a 0
\* at a minimum and a 1 at a maximum and keeps the order of the values; for an
\* input of at least two values, all equal, every output is 1.0.
C22_NormalizedRange ==
  (value.done /\ args.fn = "min_max_normalize")
    => LET scores == args.scores
           out == value.out
           n == Len(scores)
       IN /\ Len(out) = n
          /\ \A i \in 1..n : 0 <= out[i] /\ out[i] <= 1000
          /\ (\E i, j \in 1..n : scores[i] # scores[j])
               => /\ \A i \in 1..n : scores[i] = MinSeq(scores) => out[i] = 0
                  /\ \A i \in 1..n : scores[i] = MaxSeq(scores) => out[i] = 1000
                  /\ \A i, j \in 1..n : scores[i] <= scores[j] => out[i] <= out[j]
          /\ (n >= 2 /\ \A i, j \in 1..n : scores[i] = scores[j])
               => \A i \in 1..n : out[i] = 1000

\* C23: the tokenizer lowercases the text, puts a space for every punctuation
\* character, splits on whitespace and drops the tokens of length <= 1, so that
\* words joined only by punctuation come out as separate tokens.
C23_PunctuationSeparates ==
  (value.done /\ args.fn = "_preprocess_text")
    => value.out =
         SelectSeq(Split(List([i \in 1..Len(args.text) |->
                                 IF args.text[i] \in Punctuation THEN " "
                                 ELSE LowerChar(args.text[i])])),
                   LAMBDA tok : Len(tok) > 1)

\* C24: tokenization is idempotent: tokenizing the tokens of a text joined by
\* single spaces gives those tokens again.
C24_TokenizeIdempotent ==
  (value.done /\ args.fn = "_preprocess_text")
    => LET RECURSIVE Join(_)
           Join(tokens) ==
             IF tokens = <<>> THEN <<>>
             ELSE IF Len(tokens) = 1 THEN tokens[1]
             ELSE tokens[1] \o <<" ">> \o Join(Tail(tokens))
       IN PreprocessText(Join(value.out)) = value.out

\* A text with a token, punctuation and an upper-case letter
C24_Witness ==
  /\ value.done
  /\ args.fn = "_preprocess_text"
  /\ Len(value.out) >= 1
  /\ \E i \in 1..Len(args.text) : args.text[i] \in Punctuation
  /\ \E i \in 1..Len(args.text) : args.text[i] = "B"

\* C25: after every add_documents or clear_documents that returns, the BM25
\* statistics describe exactly the current corpus: corpus_size is
\* len(documents), the tokens and the length held for passage i are those of
\* tokenize(documents[i]), and the idf of every word comes from the number of
\* passages of the whole corpus that hold it; after clear there are none.
C25_StatisticsOfCurrentCorpus ==
  (call.op \in {"add_documents", "clear_documents"} /\ call.outcome = "ok")
    => /\ bm25_retriever.corpus_size = Len(documents)
       /\ Len(bm25_retriever.corpus) = Len(documents)
       /\ Len(bm25_retriever.doc_len) = Len(documents)
       /\ \A i \in 1..Len(documents) :
            /\ bm25_retriever.corpus[i] = PreprocessText(documents[i])
            /\ bm25_retriever.doc_len[i] = Len(PreprocessText(documents[i]))
       /\ DOMAIN bm25_retriever.idf
            = UNION {Range(PreprocessText(documents[i])) : i \in 1..Len(documents)}
       /\ \A word \in DOMAIN bm25_retriever.idf :
            bm25_retriever.idf[word]
              = Idf(Len(documents),
                    Cardinality({i \in 1..Len(documents) :
                                   word \in Range(PreprocessText(documents[i]))}))
       /\ call.op = "clear_documents" => bm25_retriever = NoBM25

\* C27: add_documents of a non-empty list on a retriever configured with an
\* unknown bm25_variant fails with ValueError and leaves documents,
\* document_metadata, the BM25 index and the dense index as they were.
C27_UnknownVariantAtomic ==
  [][(/\ call'.op = "add_documents"
      /\ call'.n_texts > 0
      /\ ~KnownVariant(use_bm25_variant))
       => /\ call'.outcome = "ValueError"
          /\ UNCHANGED <<documents, document_metadata, bm25_retriever,
                         passage_embeddings, passages, passage_metadata>>]_vars

\* C26 as stated: the context window of an answer span contains the characters
\* passage[start_pos:end_pos].
C26_WindowHoldsSpan ==
  (value.done /\ args.fn = "_get_context_window")
    => LET span == SubSeq(args.passage, args.start_pos + 1, args.end_pos)
       IN \E k \in 0..(Len(value.out) - Len(span)) :
            SubSeq(value.out, k + 1, k + Len(span)) = span

\* C26 amended: the context window contains passage[start_pos:end_pos] with
\* the whitespace at its ends trimmed; it begins with "..." exactly when there
\* is a space at a position 1 .. start_pos - window_size for the window to
\* start at, and ends with "..." exactly when there is a space at a position
\* end_pos + window_size .. len(passage) - 1 for it to stop at.
C26_WindowHoldsTrimmedSpan ==
  (value.done /\ args.fn = "_get_context_window")
    => LET span == Strip(SubSeq(args.passage, args.start_pos + 1, args.end_pos))
           out == value.out
           dots == <<".", ".", ".">>
       IN /\ \E k \in 0..(Len(out) - Len(span)) : SubSeq(out, k + 1, k + Len(span)) = span
          /\ (Len(out) >= 3 /\ SubSeq(out, 1, 3) = dots)
               <=> \E q \in 1..(args.start_pos - args.window_size) : args.passage[q + 1] = " "
          /\ (Len(out) >= 3 /\ SubSeq(out, Len(out) - 2, Len(out)) = dots)
               <=> \E q \in (args.end_pos + args.window_size)..(Len(args.passage) - 1) :
                     args.passage[q + 1] = " "

\* A span that ends in a space at the end of the passage, in a window that was
\* cut on its left
C26_Witness ==
  /\ value.done
  /\ args.fn = "_get_context_window"
  /\ args.end_pos = Len(args.passage)
  /\ args.passage[args.end_pos] = " "
  /\ Len(value.out) >= 3
  /\ SubSeq(value.out, 1, 3) = <<".", ".", ".">>

\* C28: after a successful upload on the route's store, a RAG query consults a
\* retriever that holds documents, and every result it returns carries the
\* fusion weights of the mode instead of coming from the semantic fallback
C28_RagUsesHybridRetriever ==
  (call.op = "rag.query" /\ Len(documents) > 0 /\ collection # <<>>) =>
    /\ Len(RagStoreDocuments) > 0
    /\ \A i \in 1..Len(store_results) :
         /\ store_results[i].kind = "advanced"
         /\ store_results[i].fusion_weights = ModeWeights(call.mode)


\* C29: get_scores of BM25+ and BM25L never divides by an avgdl of zero: for
\* every corpus, passages without tokens included, and every query it returns
\* one score per passage, the score of a passage that holds no query term is 0,
\* and a passage that holds a query term belongs to a corpus of avgdl > 0
C29_NoDivisionByZeroAvgdl ==
  (args.fn = "get_scores" /\ value.done) =>
    LET bm == BM25Build(args.variant, args.corpus)
    IN /\ value.outcome = "ok"
       /\ Len(value.out) = Len(args.corpus)
       /\ \A i \in 1..Len(args.corpus) :
            IF \E j \in 1..Len(args.query) : args.query[j] \in Range(args.corpus[i])
            THEN bm.total_len > 0 /\ bm.corpus_size > 0
            ELSE value.out[i] = 0

\* get_scores has returned for a corpus that holds a passage without tokens and
\* a passage with a query term
C29_Witness ==
  /\ args.fn = "get_scores"
  /\ value.done
  /\ \E i \in 1..Len(args.corpus) : args.corpus[i] = <<>>
  /\ \E i \in 1..Len(args.corpus) :
       \E j \in 1..Len(args.query) : args.query[j] \in Range(args.corpus[i])


\* C30: the events of a run of query_streaming are a single error event, or one
\* metadata event first, then token events only, then one done event last; a
\* token is never yielded before the metadata or after the done event, whichever
\* model streams
C30_EventShapes ==
  args.fn = "query_streaming" =>
    LET n == Len(value.out)
    IN /\ \A i \in 1..n :
            /\ value.out[i].type = "error" => n = 1
            /\ value.out[i].type = "metadata" => i = 1
            /\ value.out[i].type = "token" =>
                 /\ i > 1
                 /\ value.out[1].type = "metadata"
                 /\ \A j \in 1..i : value.out[j].type # "done"
            /\ value.out[i].type = "done" => (i = n /\ i > 1 /\ value.out[1].type = "metadata")
       /\ value.done =>
            /\ n >= 1
            /\ value.out[1].type = "error" \/ value.out[n].type = "done"

\* A run has ended in which the primary model failed after a chunk and the
\* fallback model streamed
C30_Witness ==
  /\ args.fn = "query_streaming"
  /\ value.done
  /\ args.primary.fails
  /\ args.primary.chunks > 0
  /\ \E i \in 1..Len(value.out) : value.out[i].content = "fallback"
  /\ value.out[Len(value.out)].type = "done"

====
